---- MODULE Spec2Model ----
(***************************************************************************)
(* A model of the monthly job-assignment engine of seniority_list          *)
(* (functions.py): assign_jobs_nbnf_job_changes and the helpers it calls.  *)
(*                                                                         *)
(* Long-form columns are modelled month by month: column[m] is the slice   *)
(* column[lower[m]:upper[m]] of the source, a sequence with one entry per  *)
(* employee present in month m, in list order.  numpy's np.where(..)[0] is *)
(* a set of positions of a slice, idx[:n] and idx[n:] follow Python's      *)
(* slice rules (a negative n counts from the end), np.put writes through   *)
(* the slice view into the long-form column.                               *)
(***************************************************************************)
EXTENDS Integers, Sequences, FiniteSets, TLC

\* -------------------------------------------------------------- bounds
\* number of employees of the short-form list
NumEmp == 3
\* largest career length in months: the model has months 0..MaxCareer
MaxCareer == 2
\* largest initial count of one job level of one employee group
MaxJobs == 2
\* largest number of job levels: cf.num_of_job_levels is in 1..MaxLevels
MaxLevels == 2
\* the weights of a distribution are 0.5, 1.0, ... MaxWeight / 2
MaxWeight == 3
\* the number of groups of a distribution
MaxGroups == 3

\* the longest list handed to squeeze_increment and its largest increment
MaxList == 4

MaxIncrement == 3

\* ------------------------------------------------------ numpy / Python
Min(a, b) == IF a <= b THEN a ELSE b
Max(a, b) == IF a >= b THEN a ELSE b

\* len(idx[:n]) for an index array of length len
SliceLen(len, n) == IF n >= 0 THEN Min(n, len) ELSE Max(len + n, 0)

\* the number of entries of the ascending index set S that are before i
Rank(S, i) == Cardinality({x \in S : x < i})

\* idx[:n] for the ascending index array S
First(S, n) == {i \in S : Rank(S, i) < SliceLen(Cardinality(S), n)}

\* idx[n:] for the ascending index array S
From(S, n) == {i \in S : Rank(S, i) >= SliceLen(Cardinality(S), n)}

\* idx[::stride] for the ascending index array S
Stride(S, stride) == {i \in S : Rank(S, i) % stride = 0}

\* np.put(arr, S, v) with a scalar v
Put(arr, S, v) == [i \in 1..Len(arr) |-> IF i \in S THEN v ELSE arr[i]]

\* np.sum(arr == v) / np.where(arr == v)[0].size
Count(arr, v) == Cardinality({i \in 1..Len(arr) : arr[i] = v})

\* Python 3 round() of the rational n/d (d > 0): half to even
Round(n, d) ==
    LET q == n \div d
        r == n % d
    IN  IF 2 * r < d THEN q
        ELSE IF 2 * r > d THEN q + 1
        ELSE IF q % 2 = 0 THEN q ELSE q + 1

\* sum of a sequence of integers
RECURSIVE Sum(_)
Sum(s) == IF s = <<>> THEN 0 ELSE Head(s) + Sum(Tail(s))

\* ------------------------------------------------------------- state
VARIABLES
    cf,                     \* the config module: num_of_job_levels, schedules
    eg_short, sg_short,     \* short-form eg and sg of each employee
    career,                 \* career months of each employee
    job_counts_each_month,  \* J[m][k]
    job_reduction_months,   \* months of the schedules with a negative delta
    job_change_months,      \* months of any schedule, then of any condition
    start_month,
    condition_list,
    fur_return,
    orig,                   \* orig[m]: month slice of the orig_job column
    fur_data,               \* fur_data[m]: month slice of the fur column
    long_assign_column,     \* result: assigned job
    long_count_column,      \* result: job counts
    ratio_cond_dict,        \* job -> <<frozen ratio in hundredths>>
    month, job,             \* loop variables of the engine
    pc,                     \* position of the engine
    call                    \* a call of a library function on its own:
                            \* the arguments and, once returned, the result

vars == <<cf, eg_short, sg_short, career, job_counts_each_month,
          job_reduction_months, job_change_months, start_month,
          condition_list, fur_return, orig, fur_data, long_assign_column,
          long_count_column, ratio_cond_dict, month, job, pc, call>>

\* what the engine is given and does not write
inputs == <<cf, eg_short, sg_short, career, job_counts_each_month,
            job_reduction_months, start_month, condition_list, fur_return,
            call>>

\* the variables of the engine
engine_vars == <<cf, eg_short, sg_short, career, job_counts_each_month,
                 job_reduction_months, job_change_months, start_month,
                 condition_list, fur_return, orig, fur_data,
                 long_assign_column, long_count_column, ratio_cond_dict,
                 month, job, pc>>

\* no library function is called on its own
NoCall == [fn |-> "none"]

\* the employees of the short-form list, in list order (1 is most senior)
Emps == DOMAIN career

\* ------------------------------------------------- calendar, skeleton
\* upper.size: the number of months of the model
num_of_months == 1 + CHOOSE c \in {career[e] : e \in Emps} :
    \A e \in Emps : career[e] <= c

Months == 0..(num_of_months - 1)

\* count_per_month: employees remaining in month m
count_per_month(m) == Cardinality({e \in Emps : career[e] >= m})

\* gen_skel_emp_idx: the short-form indexes of month m's rows, in list order
index_data(m) ==
    LET Remains(e) == career[e] >= m
    IN  SelectSeq([e \in Emps |-> e], Remains)

\* lower_next / upper_next: the month whose slice is [L_next:U_next]
month_next(m) == IF m + 1 < num_of_months THEN m + 1 ELSE m

\* long-form data alignment of a short-form column: one row per (month, emp)
LongForm(short) ==
    [m \in Months |->
        [i \in 1..count_per_month(m) |-> short[index_data(m)[i]]]]

eg_data == LongForm(eg_short)
sg_ident == LongForm(sg_short)

\* the concatenation of the sequences of a sequence
RECURSIVE Flatten(_)
Flatten(seqs) ==
    IF seqs = <<>> THEN <<>> ELSE Head(seqs) \o Flatten(Tail(seqs))

\* count_per_month as the array it returns (entry i is month i - 1)
month_count_array == [i \in 1..num_of_months |-> count_per_month(i - 1)]

\* gen_month_skeleton: month number i repeated for the employees of month i
gen_month_skeleton(month_counts) ==
    Flatten([i \in 1..Len(month_counts) |->
                [slot \in 1..month_counts[i] |-> i - 1]])

\* a skeleton that leaves an employee out in the month of retirement
skel_emp_idx_before_retirement ==
    LET Before(m) ==
            LET Remains(e) == career[e] > m
            IN  SelectSeq([e \in Emps |-> e], Remains)
    IN  Flatten([i \in 1..num_of_months |-> Before(i - 1)])

\* gen_skel_emp_idx output [0]: for each month the employees that remain,
\* in the order of career_mths_array
skel_emp_idx == Flatten([i \in 1..num_of_months |-> index_data(i - 1)])

\* sorted(): ascending
RECURSIVE Sorted(_)
Sorted(seq) ==
    IF seq = <<>> THEN <<>>
    ELSE LET low == CHOOSE i \in 1..Len(seq) : \A j \in 1..Len(seq) :
                        seq[i] <= seq[j]
         IN  <<seq[low]>> \o
             Sorted([j \in 1..(Len(seq) - 1) |->
                        IF j < low THEN seq[j] ELSE seq[j + 1]])

\* np.cumsum
cumsum(arr) == [i \in 1..Len(arr) |-> Sum(SubSeq(arr, 1, i))]

\* make_lower_slice_limits: the values sorted with a 0 added, without the
\* largest
make_lower_slice_limits(month_counts_cumsum) ==
    LET lower_list == Sorted(month_counts_cumsum \o <<0>>)
    IN  SubSeq(lower_list, 1, Len(lower_list) - 1)

\* np.unique(mnum_arr, return_counts=True)[1]
unique_counts(mnum_arr) ==
    LET values == {mnum_arr[r] : r \in 1..Len(mnum_arr)}
        ordered == [i \in 1..Cardinality(values) |->
                       CHOOSE v \in values : Rank(values, v) = i - 1]
    IN  [i \in 1..Len(ordered) |-> Count(mnum_arr, ordered[i])]

\* make_lower_and_upper_slice_limits: lower is made from the counts of the
\* months, upper is their cumulative sum
make_lower_and_upper_slice_limits(mnum_arr) ==
    LET mnum_data == unique_counts(mnum_arr)
    IN  [lower |-> make_lower_slice_limits(mnum_data),
         upper |-> cumsum(mnum_data)]

\* np.nan in an array of numbers
nan == -1

\* seniority numbers that count the furloughed rows as well
create_snum_and_spcnt_arrays_all_rows(jnums, job_level_count, monthly_population_counts) ==
    LET month_rows(i) ==
            [x \in 1..monthly_population_counts[i] |-> x]
        months == [i \in 1..Len(monthly_population_counts) |-> month_rows(i)]
    IN  [snum |-> Flatten(months), lnum |-> Flatten(months)]

\* create_snum_and_spcnt_arrays outputs [0] and [2], snum and lnum: within
\* the rows [L, H) of each month the rows with 0 < jnum < fur_level get
\* seq_nums in row order, the other rows of snum become nan; lnum is
\* seq_nums on all the rows of the month
create_snum_and_spcnt_arrays(jnums, job_level_count, monthly_population_counts) ==
    LET fur_level == job_level_count + 1
        L(i) == Sum(SubSeq(monthly_population_counts, 1, i - 1))
        jnum_range(i) == SubSeq(jnums, L(i) + 1,
                                L(i) + monthly_population_counts[i])
        non_fur_indexes(i) ==
            {x \in 1..monthly_population_counts[i] :
                jnum_range(i)[x] > 0 /\ jnum_range(i)[x] < fur_level}
        snum_range(i) ==
            [x \in 1..monthly_population_counts[i] |->
                IF x \in non_fur_indexes(i)
                THEN 1 + Rank(non_fur_indexes(i), x)
                ELSE nan]
        posit_range(i) == [x \in 1..monthly_population_counts[i] |-> x]
        n == Len(monthly_population_counts)
    IN  [snum |-> Flatten([i \in 1..n |-> snum_range(i)]),
         lnum |-> Flatten([i \in 1..n |-> posit_range(i)])]

\* job_gain_loss_table output [1]: the monthly total of all job levels
total_monthly_job_count(m) ==
    Sum([k \in 1..cf.num_of_job_levels |-> job_counts_each_month[m][k]])

\* ------------------------------------------- furlough, recall, closure
\* a furlough step that compares the jobs with the size of the slice
mark_for_furlough_by_slice(orig_range, fur_range, mth, jobs_avail, num_of_job_levels) ==
    LET excess_job_slots == jobs_avail[mth] - Len(fur_range)
        non_fur_indexes == {i \in 1..Len(fur_range) : fur_range[i] = 0}
        marked == From(non_fur_indexes, excess_job_slots)
    IN  IF excess_job_slots >= 0
        THEN [orig |-> orig_range, fur |-> fur_range]
        ELSE [orig |-> Put(orig_range, marked, num_of_job_levels + 1),
              fur |-> Put(fur_range, marked, 1)]

\* a furlough step that keeps one job of the month free
mark_for_furlough_spare_job(orig_range, fur_range, mth, jobs_avail, num_of_job_levels) ==
    LET excess_job_slots == jobs_avail[mth] - Count(fur_range, 0) - 1
        non_fur_indexes == {i \in 1..Len(fur_range) : fur_range[i] = 0}
        marked == From(non_fur_indexes, excess_job_slots)
    IN  IF excess_job_slots >= 0
        THEN [orig |-> orig_range, fur |-> fur_range]
        ELSE [orig |-> Put(orig_range, marked, num_of_job_levels + 1),
              fur |-> Put(fur_range, marked, 1)]

\* mark_for_furlough: when the jobs of the month are fewer than the
\* non-furloughed employees, furlough the excess from the bottom of the list
mark_for_furlough(orig_range, fur_range, mth, jobs_avail, num_of_job_levels) ==
    LET active_count == Count(fur_range, 0)
        excess_job_slots == jobs_avail[mth] - active_count
        non_fur_indexes == {i \in 1..Len(fur_range) : fur_range[i] = 0}
        marked == From(non_fur_indexes, excess_job_slots)
    IN  IF excess_job_slots >= 0
        THEN [orig |-> orig_range, fur |-> fur_range]
        ELSE [orig |-> Put(orig_range, marked, num_of_job_levels + 1),
              fur |-> Put(fur_range, marked, 1)]

\* the furloughees one schedule recalls (methods sen_order and stride)
recall_pick(fur_range, recalls_this_month, method, stride) ==
    LET fur_indexes == {i \in 1..Len(fur_range) : fur_range[i] = 1}
    IN  IF method = "stride"
        THEN First(Stride(fur_indexes, stride), recalls_this_month)
        ELSE First(fur_indexes, recalls_this_month)

\* the loop of mark_for_recall over the recall schedules (standalone=False);
\* a schedule is [amount |-> sched[0], start |-> sched[2], end |-> sched[3]]
RECURSIVE recall_loop(_, _, _, _, _, _, _, _)
recall_loop(scheds, orig_range, fur_range, excess_job_slots, mth, num_of_job_levels, method, stride) ==
    IF scheds = <<>>
    THEN [orig |-> orig_range, fur |-> fur_range]
    ELSE
        LET sched == Head(scheds)
            recalls_this_month == Min(sched.amount, excess_job_slots)
            picked == recall_pick(fur_range, recalls_this_month, method, stride)
            fur_new == Put(fur_range, picked, 0)
            orig_new == Put(orig_range, picked, num_of_job_levels + 1)
        IN  IF mth \notin sched.start..(sched.end - 1)
            THEN recall_loop(Tail(scheds), orig_range, fur_range,
                             excess_job_slots, mth, num_of_job_levels,
                             method, stride)
            ELSE IF excess_job_slots - recalls_this_month = 0
            THEN [orig |-> orig_new, fur |-> fur_new]
            ELSE recall_loop(Tail(scheds), orig_new, fur_new,
                             excess_job_slots - recalls_this_month, mth,
                             num_of_job_levels, method, stride)

\* a recall that takes the amount of every schedule whatever the surplus
mark_for_recall_uncapped(orig_range, num_of_job_levels, fur_range, mth, recall_sched, jobs_avail, method, stride) ==
    LET active_count == Count(fur_range, 0)
        excess_job_slots == jobs_avail[mth] - active_count
    IN  IF excess_job_slots > 0
        THEN recall_loop(recall_sched, orig_range, fur_range,
                         excess_job_slots + Len(fur_range), mth,
                         num_of_job_levels, method, stride)
        ELSE [orig |-> orig_range, fur |-> fur_range]

\* mark_for_recall: clear the fur code of returning employees
mark_for_recall(orig_range, num_of_job_levels, fur_range, mth, recall_sched, jobs_avail, method, stride) ==
    LET active_count == Count(fur_range, 0)
        excess_job_slots == jobs_avail[mth] - active_count
    IN  IF excess_job_slots > 0
        THEN recall_loop(recall_sched, orig_range, fur_range,
                         excess_job_slots, mth, num_of_job_levels,
                         method, stride)
        ELSE [orig |-> orig_range, fur |-> fur_range]

\* the loop of mark_for_recall with method = 'random': np.random.shuffle
\* draws from numpy's global generator, so fur_indexes[:n] is any n of the
\* furloughees; the outcomes the call can produce
RECURSIVE recall_loop_random(_, _, _, _, _, _)
recall_loop_random(scheds, orig_range, fur_range, excess_job_slots, mth, num_of_job_levels) ==
    IF scheds = <<>>
    THEN {[orig |-> orig_range, fur |-> fur_range]}
    ELSE
        LET sched == Head(scheds)
            recalls_this_month == Min(sched.amount, excess_job_slots)
            fur_indexes == {i \in 1..Len(fur_range) : fur_range[i] = 1}
            n == SliceLen(Cardinality(fur_indexes), recalls_this_month)
            After(picked) ==
                LET fur_new == Put(fur_range, picked, 0)
                    orig_new == Put(orig_range, picked, num_of_job_levels + 1)
                IN  IF excess_job_slots - recalls_this_month = 0
                    THEN {[orig |-> orig_new, fur |-> fur_new]}
                    ELSE recall_loop_random(Tail(scheds), orig_new, fur_new,
                             excess_job_slots - recalls_this_month, mth,
                             num_of_job_levels)
        IN  IF mth \notin sched.start..(sched.end - 1)
            THEN recall_loop_random(Tail(scheds), orig_range, fur_range,
                                    excess_job_slots, mth, num_of_job_levels)
            ELSE UNION {After(picked) :
                           picked \in {S \in SUBSET fur_indexes :
                                           Cardinality(S) = n}}

\* mark_for_recall(..., standalone=False, method='random'): the outcomes
mark_for_recall_random(orig_range, num_of_job_levels, fur_range, mth, recall_sched, jobs_avail) ==
    LET active_count == Count(fur_range, 0)
        excess_job_slots == jobs_avail[mth] - active_count
    IN  IF excess_job_slots > 0
        THEN recall_loop_random(recall_sched, orig_range, fur_range,
                                excess_job_slots, mth, num_of_job_levels)
        ELSE {[orig |-> orig_range, fur |-> fur_range]}

\* get_recall_months: the months covered by any recall schedule
get_recall_months(list_of_recall_schedules) ==
    UNION {s.start..(s.end - 1) :
              s \in {list_of_recall_schedules[i] :
                        i \in 1..Len(list_of_recall_schedules)}}

\* a closure that leaves the fur codes as they are
mark_fur_range_kept(assign_range, fur_range, job_levels) == fur_range

\* mark_fur_range: unassigned rows get the fur code, rows with a job lose it
mark_fur_range(assign_range, fur_range, job_levels) ==
    LET unassigned == {i \in 1..Len(assign_range) : assign_range[i] = 0}
        holding == {i \in 1..Len(assign_range) :
                       assign_range[i] > 0 /\ assign_range[i] <= job_levels}
    IN  Put(Put(fur_range, unassigned, 1), holding, 0)

\* a pass down by position: the first rows of arr, whoever has left
align_next_by_position(long_index_arr, short_index_arr, arr) ==
    [n \in 1..Len(short_index_arr) |-> arr[n]]

\* align_next: the entries of arr whose index is in the next month's index
align_next(long_index_arr, short_index_arr, arr) ==
    LET short == {short_index_arr[i] : i \in 1..Len(short_index_arr)}
        kept == {i \in 1..Len(long_index_arr) : long_index_arr[i] \in short}
    IN  [n \in 1..Cardinality(kept) |->
            arr[CHOOSE i \in kept : Rank(kept, i) = n - 1]]

\* ------------------------------------------------------- distribution
\* a distribution that takes every share from the whole count
RECURSIVE distribute100_undepleted(_, _)
distribute100_undepleted(available, weights) ==
    IF weights = <<>>
    THEN <<>>
    ELSE
        LET total_weights == Sum(weights)
            this_bin_count == Round(Head(weights) * available,
                                    total_weights * 100)
        IN  <<this_bin_count>> \o
            distribute100_undepleted(available, Tail(weights))

\* distribute, with available given in hundredths (it may be limit * pcnt)
RECURSIVE distribute100(_, _)
distribute100(available, weights) ==
    IF weights = <<>>
    THEN <<>>
    ELSE
        LET total_weights == Sum(weights)
            this_bin_count == Round(Head(weights) * available,
                                    total_weights * 100)
        IN  <<this_bin_count>> \o
            distribute100(available - 100 * this_bin_count, Tail(weights))

\* distribute(available, weights) for an integer available
distribute(available, weights) == distribute100(100 * available, weights)

\* a distribution that gives every group below its share the whole shortfall
distribute_to_share(available, eg_counts, weights) ==
    LET bin_counts == distribute(available, weights)
    IN  IF available - Sum(eg_counts) <= 0
        THEN [i \in 1..Len(eg_counts) |-> 0]
        ELSE [i \in 1..Len(eg_counts) |-> Max(bin_counts[i] - eg_counts[i], 0)]

\* np.array(weights).astype(int): the weights without their fractions
astype_int(weights) == [i \in 1..Len(weights) |-> weights[i] \div 100]

\* distribute_vacancies_by_weights: the additives for each group.  The
\* weights are positive numbers held in hundredths.  The redistribution
\* uses the weights as integers; when the integer weight of the last group
\* it serves is 0, the share of that group is 0/0 = nan, round() of it
\* raises and no additives are returned: <<>>
distribute_vacancies_by_weights(available, eg_counts, weights) ==
    LET n == Len(eg_counts)
        vacancies == available - Sum(eg_counts)
        bin_counts == distribute(available, weights)
        additives == [i \in 1..n |-> bin_counts[i] - eg_counts[i]]
        list_loc == {i \in 1..n : additives[i] > 0}
        InLoc(i) == i \in list_loc
        loc_seq == SelectSeq([i \in 1..n |-> i], InLoc)
        loc_weights ==
            [j \in 1..Len(loc_seq) |-> astype_int(weights)[loc_seq[j]]]
        redistributed == distribute(vacancies, loc_weights)
    IN  IF vacancies <= 0
        THEN [i \in 1..n |-> 0]
        ELSE IF \E i \in 1..n : additives[i] < 0
        THEN IF loc_weights[Len(loc_weights)] = 0
             THEN <<>>
             ELSE [i \in 1..n |->
                      IF i \in list_loc
                      THEN redistributed[1 + Rank(list_loc, i)]
                      ELSE 0]
        ELSE additives

\* ------------------------------------------------- conditional quotas
\* np.arange(np.min(starts), np.max(ends)) over the rows of a condition
cond_month_range(rows) ==
    LET R == {rows[i] : i \in 1..Len(rows)}
        lo == CHOOSE a \in {r.start : r \in R} : \A r \in R : a <= r.start
        hi == CHOOSE b \in {r.end : r \in R} : \A r \in R : b >= r.end
    IN  lo..(hi - 1)

\* column 1 of a condition's rows: the job levels it names
cond_jobs(rows) == {rows[i].job : i \in 1..Len(rows)}

\* sg_dict = dict(zip(sg_jobs, sg_counts)): the last row of a job wins
sg_dict(sg_rights, j) ==
    LET last == CHOOSE i \in 1..Len(sg_rights) :
                    /\ sg_rights[i].job = j
                    /\ \A n \in (i + 1)..Len(sg_rights) : sg_rights[n].job # j
    IN  sg_rights[last].count

\* a pre-existing rights step that does not cap the rights at the job count
assign_prex_uncapped(j, this_job_count, sg_count, assign_range, sg_range, fur_range) ==
    LET cand == {i \in 1..Len(assign_range) :
                    assign_range[i] = 0 /\ sg_range[i] = 1 /\ fur_range[i] = 0}
    IN  Put(assign_range, First(cand, sg_count), j)

\* the pre-existing rights step: sg employees first
assign_prex(j, this_job_count, sg_count, assign_range, sg_range, fur_range) ==
    LET sg_jobs_avail == Min(sg_count, this_job_count)
        cand == {i \in 1..Len(assign_range) :
                    assign_range[i] = 0 /\ sg_range[i] = 1 /\ fur_range[i] = 0}
    IN  Put(assign_range, First(cand, sg_jobs_avail), j)

\* set_ratio_cond_dict: the frozen share of eg_num of each ratio job, as
\* <<hundredths>>; <<>> stands for nan, when nobody holds the job (0 / 0)
set_ratio_cond_dict(eg_num, job_list, orig_rng, eg_range) ==
    [j \in job_list |->
        LET total_this_job_count == Count(orig_rng, j)
            eg_count == Cardinality({i \in 1..Len(orig_rng) :
                            orig_rng[i] = j /\ eg_range[i] = eg_num})
        IN  IF total_this_job_count = 0
            THEN <<>>
            ELSE <<Round(100 * eg_count, total_this_job_count)>>]

\* a ratio step that hands the jobs of the level out by seniority alone
assign_cond_ratio_by_seniority(j, this_job_count, eg_num, c_dict, orig_rng, assign_rng, eg_rng, fur_rng) ==
    Put(assign_rng,
        First({i \in 1..Len(assign_rng) : assign_rng[i] = 0 /\ fur_rng[i] = 0},
              this_job_count),
        j)

\* assign_cond_ratio: c_dict[j] of the jobs to eg_num, the rest to the others
assign_cond_ratio(j, this_job_count, eg_num, c_dict, orig_rng, assign_rng, eg_rng, fur_rng) ==
    LET n == Len(assign_rng)
        eg_job_count == Round(c_dict[j][1] * this_job_count, 100)
        not_eg_job_count == this_job_count - eg_job_count
        a1 == Put(assign_rng,
                  First({i \in 1..n : assign_rng[i] = 0 /\ eg_rng[i] = eg_num
                                      /\ fur_rng[i] = 0}, eg_job_count),
                  j)
        a2 == Put(a1,
                  First({i \in 1..n : a1[i] = 0 /\ eg_rng[i] # eg_num
                                      /\ fur_rng[i] = 0 /\ orig_rng[i] <= j},
                        not_eg_job_count),
                  j)
        used_jobs == Cardinality({i \in 1..n : a2[i] = j /\ eg_rng[i] > 1})
    IN  Put(a2,
            First({i \in 1..n : a2[i] = 0 /\ eg_rng[i] # eg_num
                                /\ fur_rng[i] = 0},
                  not_eg_job_count - used_jobs),
            j)

\* a capped ratio that hands out the whole capped pool by the weights,
\* without first giving the holders of the level their job back
assign_cond_ratio_capped_by_weights_only(j, this_job_count, eg_1_arr, eg_2_arr, quota, orig_range, assign_range, eg_range, fur_range, exclude_eg_range) ==
    LET n == Len(assign_range)
        eg_1_indexes == {i \in 1..n : eg_range[i] \in eg_1_arr}
        eg_2_indexes == {i \in 1..n : eg_range[i] \in eg_2_arr}
        affected_indexes == eg_1_indexes \cup eg_2_indexes
        exclude_nbnf == {i \in 1..n : exclude_eg_range[i] = j}
        a0 == Put(assign_range, exclude_nbnf, j)
        exclude_count == Count(a0, j)
        a1 == a0
        eg_1_count == Cardinality({i \in eg_1_indexes : a1[i] = j})
        eg_2_count == Cardinality({i \in eg_2_indexes : a1[i] = j})
        limit == quota.limit * quota.pcnt
        max_quota == Min(this_job_count, Round(limit, 100))
        available == max_quota - exclude_count
        assignment_list ==
            distribute_vacancies_by_weights(available,
                                            <<eg_1_count, eg_2_count>>,
                                            quota.weights)
        eg_1_quota == assignment_list[1]
        eg_2_quota == assignment_list[2]
        b1 == IF eg_1_quota > 0
              THEN Put(a1, First({i \in eg_1_indexes :
                                     a1[i] = 0 /\ fur_range[i] = 0},
                                 eg_1_quota), j)
              ELSE a1
        b2 == IF eg_2_quota > 0
              THEN Put(b1, First({i \in eg_2_indexes :
                                     b1[i] = 0 /\ fur_range[i] = 0},
                                 eg_2_quota), j)
              ELSE b1
        eg_quotas == distribute100(limit, quota.weights)
        open_jobs == this_job_count - exclude_count - eg_1_count - eg_2_count
        eg_1_shortfall == Max(0, eg_quotas[1] - eg_1_count)
        eg_2_shortfall == Max(0, eg_quotas[2] - eg_2_count)
        c2 == IF eg_2_shortfall > 0
              THEN Put(a1, First({i \in eg_2_indexes :
                                     a1[i] = 0 /\ fur_range[i] = 0},
                                 Min(eg_2_shortfall, open_jobs)), j)
              ELSE a1
        c1 == IF eg_1_shortfall > 0
              THEN Put(c2, First({i \in eg_1_indexes :
                                     c2[i] = 0 /\ fur_range[i] = 0},
                                 Min(eg_1_shortfall, open_jobs)), j)
              ELSE c2
    IN  IF Sum(assignment_list) > 0 THEN b2 ELSE c1

\* assign_cond_ratio_capped: weighted shares of the first jobs of a level;
\* quota is quota_dict[(job, enhanced_jobs)] with pcnt in hundredths
assign_cond_ratio_capped(j, this_job_count, eg_1_arr, eg_2_arr, quota, orig_range, assign_range, eg_range, fur_range, exclude_eg_range) ==
    LET n == Len(assign_range)
        eg_1_indexes == {i \in 1..n : eg_range[i] \in eg_1_arr}
        eg_2_indexes == {i \in 1..n : eg_range[i] \in eg_2_arr}
        affected_indexes == eg_1_indexes \cup eg_2_indexes
        exclude_nbnf == {i \in 1..n : exclude_eg_range[i] = j}
        a0 == Put(assign_range, exclude_nbnf, j)
        exclude_count == Count(a0, j)
        a1 == Put(a0,
                  First({i \in 1..n : a0[i] = 0 /\ orig_range[i] = j
                                      /\ fur_range[i] = 0
                                      /\ i \in affected_indexes},
                        this_job_count - exclude_count),
                  j)
        eg_1_count == Cardinality({i \in eg_1_indexes : a1[i] = j})
        eg_2_count == Cardinality({i \in eg_2_indexes : a1[i] = j})
        limit == quota.limit * quota.pcnt
        max_quota == Min(this_job_count, Round(limit, 100))
        available == max_quota - exclude_count
        assignment_list ==
            distribute_vacancies_by_weights(available,
                                            <<eg_1_count, eg_2_count>>,
                                            quota.weights)
        eg_1_quota == assignment_list[1]
        eg_2_quota == assignment_list[2]
        b1 == IF eg_1_quota > 0
              THEN Put(a1, First({i \in eg_1_indexes :
                                     a1[i] = 0 /\ fur_range[i] = 0},
                                 eg_1_quota), j)
              ELSE a1
        b2 == IF eg_2_quota > 0
              THEN Put(b1, First({i \in eg_2_indexes :
                                     b1[i] = 0 /\ fur_range[i] = 0},
                                 eg_2_quota), j)
              ELSE b1
        eg_quotas == distribute100(limit, quota.weights)
        open_jobs == this_job_count - exclude_count - eg_1_count - eg_2_count
        eg_1_shortfall == Max(0, eg_quotas[1] - eg_1_count)
        eg_2_shortfall == Max(0, eg_quotas[2] - eg_2_count)
        c2 == IF eg_2_shortfall > 0
              THEN Put(a1, First({i \in eg_2_indexes :
                                     a1[i] = 0 /\ fur_range[i] = 0},
                                 Min(eg_2_shortfall, open_jobs)), j)
              ELSE a1
        c1 == IF eg_1_shortfall > 0
              THEN Put(c2, First({i \in eg_1_indexes :
                                     c2[i] = 0 /\ fur_range[i] = 0},
                                 Min(eg_1_shortfall, open_jobs)), j)
              ELSE c2
    IN  IF Sum(assignment_list) > 0 THEN b2 ELSE c1

\* ------------------------------------------------ baseline fills (D4-D6)
\* a fill of level j that does not look at the job held before
assign_nbnf_by_seniority(j, this_job_count, orig_job_range, assign_range, fur_range) ==
    LET jobs_avail == this_job_count - Count(assign_range, j)
        cand == {i \in 1..Len(assign_range) :
                    assign_range[i] = 0 /\ fur_range[i] = 0}
    IN  Put(assign_range, First(cand, jobs_avail), j)

\* the no-bump no-flush fill of level j: holders of j or of a better job
assign_nbnf(j, this_job_count, orig_job_range, assign_range, fur_range) ==
    LET jobs_avail == this_job_count - Count(assign_range, j)
        cand == {i \in 1..Len(assign_range) :
                    /\ assign_range[i] = 0
                    /\ orig_job_range[i] <= j
                    /\ fur_range[i] = 0}
    IN  Put(assign_range, First(cand, jobs_avail), j)

\* a fill that takes furloughed employees as well
assign_fill_with_furloughed(j, this_job_count, assign_range, fur_range) ==
    LET jobs_avail == this_job_count - Count(assign_range, j)
        cand == {i \in 1..Len(assign_range) : assign_range[i] = 0}
    IN  Put(assign_range, First(cand, jobs_avail), j)

\* a fill from the bottom of the list
assign_fill_junior(j, this_job_count, assign_range, fur_range) ==
    LET jobs_avail == this_job_count - Count(assign_range, j)
        cand == {i \in 1..Len(assign_range) :
                    assign_range[i] = 0 /\ fur_range[i] = 0}
    IN  Put(assign_range,
            From(cand, Cardinality(cand) - SliceLen(Cardinality(cand), jobs_avail)),
            j)

\* a seniority fill that takes the most senior rows not on level j, assigned
\* or not
assign_fill_reassigning(j, this_job_count, assign_range, fur_range) ==
    LET jobs_avail == this_job_count - Count(assign_range, j)
        cand == {i \in 1..Len(assign_range) :
                    assign_range[i] # j /\ fur_range[i] = 0}
    IN  Put(assign_range, First(cand, jobs_avail), j)

\* the seniority fill of level j: from the top of the list
assign_fill(j, this_job_count, assign_range, fur_range) ==
    LET jobs_avail == this_job_count - Count(assign_range, j)
        cand == {i \in 1..Len(assign_range) :
                    assign_range[i] = 0 /\ fur_range[i] = 0}
    IN  Put(assign_range, First(cand, jobs_avail), j)

\* the job count written beside every row that holds level j
put_job_count(j, this_job_count, assign_range, job_count_range) ==
    Put(job_count_range,
        {i \in 1..Len(assign_range) : assign_range[i] = j},
        this_job_count)

\* ------------------------------------- initial jobs and the job table
\* np.repeat(np.arange(len(job_arr)) + 1, job_arr)[n - 1]: the level of the
\* n-th job of a stovepipe list
job_list_at(job_arr, n) ==
    CHOOSE k \in 1..Len(job_arr) :
        /\ Sum(SubSeq(job_arr, 1, k)) >= n
        /\ Sum(SubSeq(job_arr, 1, k - 1)) < n

\* initial jobs for which a furloughed member uses up a job of the group
make_original_jobs_counting_furloughed(jobs_arr_arr, eg_array, fur_array, num_levels) ==
    [i \in 1..Len(eg_array) |->
        LET g == eg_array[i]
            members == {x \in 1..Len(eg_array) : eg_array[x] = g}
            n == 1 + Rank(members, i)
        IN  IF /\ g \in 1..Len(jobs_arr_arr)
               /\ fur_array[i] = 0
               /\ n <= Sum(jobs_arr_arr[g])
            THEN job_list_at(jobs_arr_arr[g], n)
            ELSE num_levels + 1]

\* make_original_jobs_from_counts: each group's non-furloughed members take
\* the group's jobs from the top; everybody else gets num_levels + 1
make_original_jobs_from_counts(jobs_arr_arr, eg_array, fur_array, num_levels) ==
    [i \in 1..Len(eg_array) |->
        LET g == eg_array[i]
            members == {x \in 1..Len(eg_array) :
                           eg_array[x] = g /\ fur_array[x] = 0}
            n == 1 + Rank(members, i)
        IN  IF /\ g \in 1..Len(jobs_arr_arr)
               /\ i \in members
               /\ n <= Sum(jobs_arr_arr[g])
            THEN job_list_at(jobs_arr_arr[g], n)
            ELSE num_levels + 1]

\* make_jcnts output [1]: the combined job counts of all groups
combined_job_counts(jobs_arr_arr, job_levels) ==
    [k \in 1..job_levels |->
        Sum([g \in 1..Len(jobs_arr_arr) |-> jobs_arr_arr[g][k]])]

\* int() of the rational a/b (b > 0): truncation toward zero
Trunc(a, b) == IF a >= 0 THEN a \div b ELSE -((-a) \div b)

\* a ramp that is rounded down instead of truncated toward zero
calculated_additive_floor(gain_loss, n, m) == (gain_loss * m) \div n

\* np.linspace(0, gain_loss, n + 1)[1:].astype(int)[m - 1], 1 <= m <= n
calculated_additive(gain_loss, n, m) == Trunc(gain_loss * m, n)

\* a job change that is not carried on after its last month
change_additive_ramp_only(change, m) ==
    IF m < change.start \/ m >= change.end THEN 0
    ELSE calculated_additive(change.delta, change.end - change.start,
                             m - change.start + 1)

\* what one job change adds to the count of its level in month m;
\* a change is [job |-> change[0], start |-> change[1][0],
\*              end |-> change[1][1], delta |-> change[2]]
change_additive(change, m) ==
    IF m < change.start THEN 0
    ELSE IF m < change.end
    THEN calculated_additive(change.delta, change.end - change.start,
                             m - change.start + 1)
    ELSE change.delta

\* a fill down that repeats the last month of the ramp in the later months
apply_job_change_repeat_last(this_job_table, change) ==
    [m \in DOMAIN this_job_table |->
        [this_job_table[m] EXCEPT ![change.job] =
            IF m >= change.end
            THEN this_job_table[change.end - 1][change.job] + change.delta
            ELSE @ + change_additive(change, m)]]

\* one pass of the loop over job_changes: the ramp over [start, end) and the
\* fill down of the months from end on
apply_job_change(this_job_table, change) ==
    [m \in DOMAIN this_job_table |->
        [this_job_table[m] EXCEPT ![change.job] = @ + change_additive(change, m)]]

RECURSIVE apply_job_changes(_, _)
apply_job_changes(this_job_table, job_changes) ==
    IF job_changes = <<>>
    THEN this_job_table
    ELSE apply_job_changes(apply_job_change(this_job_table, Head(job_changes)),
                           Tail(job_changes))

\* job_gain_loss_table output [0] (standalone=False): J[m][k]
job_gain_loss_table(months, job_levels, init_job_counts, job_changes) ==
    apply_job_changes([m \in 0..(months - 1) |->
                          [k \in 1..job_levels |-> init_job_counts[k]]],
                      job_changes)

\* get_job_change_months
get_job_change_months(job_changes) ==
    UNION {job_changes[c].start..(job_changes[c].end - 1) :
              c \in 1..Len(job_changes)}

\* get_job_reduction_months
get_job_reduction_months(job_changes) ==
    UNION {job_changes[c].start..(job_changes[c].end - 1) :
              c \in {x \in 1..Len(job_changes) : job_changes[x].delta < 0}}

\* ------------------------------------------------------------ engine
K == cf.num_of_job_levels

\* jobs_avail of mark_for_furlough / mark_for_recall
job_totals == [m \in Months |-> total_monthly_job_count(m)]

this_job_count == job_counts_each_month[month][job]

zeros == [m \in Months |-> [i \in 1..count_per_month(m) |-> 0]]

\* the part of the engine before the monthly loop
Begin ==
    /\ pc = "begin"
    /\ long_assign_column' =
           IF cf.delayed_implementation
           THEN [m \in Months |->
                    IF m <= start_month THEN orig[m]
                    ELSE long_assign_column[m]]
           ELSE long_assign_column
    /\ job_change_months' =
           job_change_months
           \cup (IF "prex" \in condition_list
                 THEN cond_month_range(cf.sg_rights) ELSE {})
           \cup (IF "ratio" \in condition_list
                 THEN cond_month_range(cf.ratio_cond) ELSE {})
           \cup (IF "count" \in condition_list
                 THEN cond_month_range(cf.count_cond) ELSE {})
           \cup (IF fur_return THEN get_recall_months(cf.recalls) ELSE {})
    /\ month' = start_month
    /\ pc' = IF start_month < num_of_months THEN "furlough" ELSE "final"
    /\ UNCHANGED <<inputs, orig, fur_data, long_count_column,
                   ratio_cond_dict, job>>

\* Step B: furlough for reductions
Furlough ==
    /\ pc = "furlough"
    /\ LET r == mark_for_furlough(orig[month], fur_data[month], month,
                                  job_totals, K)
       IN  IF month \in job_reduction_months
           THEN /\ orig' = [orig EXCEPT ![month] = r.orig]
                /\ fur_data' = [fur_data EXCEPT ![month] = r.fur]
           ELSE UNCHANGED <<orig, fur_data>>
    /\ pc' = "recall"
    /\ UNCHANGED <<inputs, job_change_months, long_assign_column,
                   long_count_column, ratio_cond_dict, month, job>>

\* Step C: recall (the engine passes no method: sen_order, stride 2)
Recall ==
    /\ pc = "recall"
    /\ LET r == mark_for_recall(orig[month], K, fur_data[month], month,
                                cf.recalls, job_totals, "sen_order", 2)
       IN  IF fur_return /\ month \in get_recall_months(cf.recalls)
           THEN /\ orig' = [orig EXCEPT ![month] = r.orig]
                /\ fur_data' = [fur_data EXCEPT ![month] = r.fur]
           ELSE UNCHANGED <<orig, fur_data>>
    /\ job' = 1
    /\ pc' = "prex"
    /\ UNCHANGED <<inputs, job_change_months, long_assign_column,
                   long_count_column, ratio_cond_dict, month>>

\* Step D1: pre-existing rights
prex_applies ==
    /\ month \in job_change_months
    /\ "prex" \in condition_list
    /\ month \in cond_month_range(cf.sg_rights)
    /\ job \in cond_jobs(cf.sg_rights)

Prex ==
    /\ pc = "prex"
    /\ long_assign_column' =
           IF prex_applies
           THEN [long_assign_column EXCEPT ![month] =
                    assign_prex(job, this_job_count, sg_dict(cf.sg_rights, job),
                                @, sg_ident[month], fur_data[month])]
           ELSE long_assign_column
    /\ pc' = "ratio"
    /\ UNCHANGED <<inputs, job_change_months, orig, fur_data,
                   long_count_column, ratio_cond_dict, month, job>>

\* Step D2: the ratio condition; the ratios are frozen when the loop reaches
\* level 1 of the month of the first row of cf.ratio_cond
ratio_sets_dict ==
    /\ month \in job_change_months
    /\ "ratio" \in condition_list
    /\ month = cf.ratio_cond[1].start
    /\ job = 1

ratio_applies ==
    /\ month \in job_change_months
    /\ "ratio" \in condition_list
    /\ month \in cond_month_range(cf.ratio_cond)
    /\ job \in cond_jobs(cf.ratio_cond)

ratio_dict_now ==
    IF ratio_sets_dict
    THEN set_ratio_cond_dict(1, cond_jobs(cf.ratio_cond), orig[month],
                             eg_data[month])
    ELSE ratio_cond_dict

\* the engine stops with an exception: ratio_cond_dict was never assigned
\* (modelled as the empty dictionary), or the frozen ratio is nan and cannot
\* be rounded to an integer
ratio_raises ==
    /\ ratio_applies
    /\ IF job \in DOMAIN ratio_dict_now
       THEN ratio_dict_now[job] = <<>>
       ELSE TRUE

Ratio ==
    /\ pc = "ratio"
    /\ ratio_cond_dict' = ratio_dict_now
    /\ long_assign_column' =
           IF ratio_applies /\ ~ratio_raises
           THEN [long_assign_column EXCEPT ![month] =
                    assign_cond_ratio(job, this_job_count, 1, ratio_dict_now,
                                      orig[month], @, eg_data[month],
                                      fur_data[month])]
           ELSE long_assign_column
    /\ pc' = IF ratio_raises THEN "raised" ELSE "count"
    /\ UNCHANGED <<inputs, job_change_months, orig, fur_data,
                   long_count_column, month, job>>

\* Step D3: the capped ratio condition between groups {1} and {2};
\* nonparticip_nbnf_jobs is all zeros (nothing ever writes it)
count_applies ==
    /\ month \in job_change_months
    /\ "count" \in condition_list
    /\ month \in cond_month_range(cf.count_cond)
    /\ job \in cond_jobs(cf.count_cond)

CountCond ==
    /\ pc = "count"
    /\ long_assign_column' =
           IF count_applies
           THEN [long_assign_column EXCEPT ![month] =
                    assign_cond_ratio_capped(job, this_job_count, {1}, {2},
                                             cf.quota_dict[job], orig[month],
                                             @, eg_data[month],
                                             fur_data[month], zeros[month])]
           ELSE long_assign_column
    /\ pc' = "nbnf"
    /\ UNCHANGED <<inputs, job_change_months, orig, fur_data,
                   long_count_column, ratio_cond_dict, month, job>>

\* Step D4: the no-bump no-flush fill
Nbnf ==
    /\ pc = "nbnf"
    /\ long_assign_column' =
           [long_assign_column EXCEPT ![month] =
               assign_nbnf(job, this_job_count, orig[month], @,
                           fur_data[month])]
    /\ pc' = "fill"
    /\ UNCHANGED <<inputs, job_change_months, orig, fur_data,
                   long_count_column, ratio_cond_dict, month, job>>

\* Step D5: the seniority fill
Fill ==
    /\ pc = "fill"
    /\ long_assign_column' =
           [long_assign_column EXCEPT ![month] =
               assign_fill(job, this_job_count, @, fur_data[month])]
    /\ pc' = "jcount"
    /\ UNCHANGED <<inputs, job_change_months, orig, fur_data,
                   long_count_column, ratio_cond_dict, month, job>>

\* Step D6: record the job count, go to the next level
JobCount ==
    /\ pc = "jcount"
    /\ long_count_column' =
           [long_count_column EXCEPT ![month] =
               put_job_count(job, this_job_count, long_assign_column[month], @)]
    /\ job' = job + 1
    /\ pc' = IF job + 1 <= K THEN "prex" ELSE "align"
    /\ UNCHANGED <<inputs, job_change_months, orig, fur_data,
                   long_assign_column, ratio_cond_dict, month>>

\* Steps E and F: pass the assignments down as next month's orig, mark the
\* unassigned as furloughed, pass the fur codes down
EndOfMonth ==
    /\ pc = "align"
    /\ LET nxt == month_next(month)
           assign_range == long_assign_column[month]
           orig_next == align_next(index_data(month), index_data(nxt),
                                   assign_range)
           fur_range == mark_fur_range(assign_range, fur_data[month], K)
           fur_next == align_next(index_data(month), index_data(nxt),
                                  fur_range)
       IN  /\ orig' = [orig EXCEPT ![nxt] = orig_next]
           /\ fur_data' = [fur_data EXCEPT ![month] = fur_range,
                                           ![nxt] = fur_next]
           /\ long_count_column' =
                  [long_count_column EXCEPT ![month] =
                      Put(@, {i \in 1..Len(fur_range) : fur_range[i] = 1},
                          Count(fur_range, 1))]
    /\ month' = month + 1
    /\ pc' = IF month + 1 < num_of_months THEN "furlough" ELSE "final"
    /\ UNCHANGED <<inputs, job_change_months, long_assign_column,
                   ratio_cond_dict, job>>

\* an end of the engine that leaves the unassigned rows at 0
Final_unmarked ==
    /\ pc = "final"
    /\ pc' = "done"
    /\ UNCHANGED <<inputs, job_change_months, orig, fur_data,
                   long_assign_column, long_count_column, ratio_cond_dict,
                   month, job>>

\* after the loop: unassigned rows get the furlough level, orig jobs at the
\* furlough level are reported as 0
Final ==
    /\ pc = "final"
    /\ long_assign_column' =
           [m \in Months |->
               [i \in 1..Len(long_assign_column[m]) |->
                   IF long_assign_column[m][i] = 0 THEN K + 1
                   ELSE long_assign_column[m][i]]]
    /\ orig' =
           [m \in Months |->
               [i \in 1..Len(orig[m]) |->
                   IF orig[m][i] = K + 1 THEN 0 ELSE orig[m][i]]]
    /\ pc' = "done"
    /\ UNCHANGED <<inputs, job_change_months, fur_data, long_count_column,
                   ratio_cond_dict, month, job>>

Next ==
    \/ Begin
    \/ Furlough
    \/ Recall
    \/ Prex
    \/ Ratio
    \/ CountCond
    \/ Nbnf
    \/ Fill
    \/ JobCount
    \/ EndOfMonth
    \/ Final

\* ------------------------------------------------------ initial states
\* the state in which assign_jobs_nbnf_job_changes is entered: the job table
\* is job_gain_loss_table's, the orig_job column is the stovepipe job of
\* each employee and the fur column the initial furlough code, both aligned
\* to every month of the employee
EngineEntry(c, egs, sgs, fur0, car, jobs_arr_arr, sm, conds, fr) ==
    /\ cf = c
    /\ eg_short = egs
    /\ sg_short = sgs
    /\ career = car
    /\ job_counts_each_month =
           job_gain_loss_table(num_of_months, c.num_of_job_levels,
               combined_job_counts(jobs_arr_arr, c.num_of_job_levels),
               c.j_changes)
    /\ job_reduction_months = get_job_reduction_months(c.j_changes)
    /\ job_change_months = get_job_change_months(c.j_changes)
    /\ start_month = sm
    /\ condition_list = conds
    /\ fur_return = fr
    /\ orig = LongForm(make_original_jobs_from_counts(
                           jobs_arr_arr, egs, fur0, c.num_of_job_levels))
    /\ fur_data = LongForm(fur0)
    /\ long_assign_column = zeros
    /\ long_count_column = zeros
    /\ ratio_cond_dict = <<>>
    /\ month = 0
    /\ job = 1
    /\ pc = "begin"
    /\ call = NoCall

\* a config without conditions and recalls
PlainConfig(levels, changes) ==
    [num_of_job_levels |-> levels,
     delayed_implementation |-> FALSE,
     j_changes |-> changes,
     sg_rights |-> <<>>,
     ratio_cond |-> <<>>,
     count_cond |-> <<>>,
     quota_dict |-> <<>>,
     recalls |-> <<>>]

\* the employee groups of S1: two groups interleaved in the list
Interleaved == [e \in 1..NumEmp |-> IF e % 2 = 1 THEN 1 ELSE 2]

NoSg == [e \in 1..NumEmp |-> 0]

\* career months: everybody works to the last month but at most one employee
NoRetirement == [e \in 1..NumEmp |-> MaxCareer]

Careers ==
    {NoRetirement} \cup
    {[e \in 1..NumEmp |-> IF e = x THEN c ELSE MaxCareer] :
        x \in 1..NumEmp, c \in {0, MaxCareer - 1}}

\* initial furlough codes: at most one employee starts furloughed
NoFur == [e \in 1..NumEmp |-> 0]

FurCodes ==
    {NoFur} \cup
    {[e \in 1..NumEmp |-> IF e = x THEN 1 ELSE 0] : x \in 1..NumEmp}

\* job change schedules: one ramp of one or two months on the first or on
\* the last level
JobChanges(levels) ==
    {<<[job |-> k, start |-> a, end |-> a + n, delta |-> d]>> :
        k \in {1, levels}, a \in 0..1, n \in 1..2,
        d \in {-MaxJobs, -1, 1}}

\* job_gain_loss_table can index the months of the change, and no count of
\* the table is negative
ValidChanges(jobs_arr_arr, levels, changes) ==
    \A c \in 1..Len(changes) :
        /\ changes[c].end <= MaxCareer + 1
        /\ combined_job_counts(jobs_arr_arr, levels)[changes[c].job]
               + changes[c].delta >= 0

\* the job counts of two employee groups, at most MaxJobs jobs a group, the
\* jobs of the second group on one level
JobCounts(levels) ==
    {t \in [1..2 -> [1..levels -> 0..MaxJobs]] :
        /\ \A g \in 1..2 : Sum(t[g]) <= MaxJobs
        /\ \E k \in 1..levels : \A x \in 1..levels : x = k \/ t[2][x] = 0}

\* no conditions, no recall: retirements with constant job counts, or a
\* job change schedule while nobody retires
InitBase ==
    \E levels \in 1..MaxLevels :
    \E jobs_arr_arr \in JobCounts(levels), fur0 \in FurCodes :
    \E car \in Careers :
    \E changes \in {<<>>} \cup JobChanges(levels) :
        /\ changes = <<>> \/ car = NoRetirement
        /\ ValidChanges(jobs_arr_arr, levels, changes)
        /\ EngineEntry(PlainConfig(levels, changes), Interleaved, NoSg,
                       fur0, car, jobs_arr_arr, 0, {}, FALSE)

Spec == InitBase /\ [][Next]_vars

\* the runs without conditions and recall in which nobody starts furloughed
InitNoFur == InitBase /\ fur_data = zeros

SpecNoFur == InitNoFur /\ [][Next]_vars

\* ------------------------------------------- families with conditions
\* the other list order of the two groups
Swapped == [e \in 1..NumEmp |-> 3 - Interleaved[e]]

\* at most one employee has the special group code sg = 1
SgCodes ==
    {NoSg} \cup
    {[e \in 1..NumEmp |-> IF e = x THEN 1 ELSE 0] : x \in 1..NumEmp}

\* the conditions of a config are all on level 1 and on months [0, e):
\* cf.sg_rights rows are [job, count, start, end], cf.ratio_cond and
\* cf.count_cond rows are [job, start, end]
CondConfig(levels, conds, e, sg_count, weights, limit) ==
    [num_of_job_levels |-> levels,
     delayed_implementation |-> FALSE,
     j_changes |-> <<>>,
     sg_rights |-> IF "prex" \in conds
                   THEN <<[job |-> 1, count |-> sg_count,
                           start |-> 0, end |-> e]>>
                   ELSE <<>>,
     ratio_cond |-> IF "ratio" \in conds
                    THEN <<[job |-> 1, start |-> 0, end |-> e]>>
                    ELSE <<>>,
     count_cond |-> IF "count" \in conds
                    THEN <<[job |-> 1, start |-> 0, end |-> e]>>
                    ELSE <<>>,
     quota_dict |-> IF "count" \in conds
                    THEN <<[weights |-> weights, limit |-> limit,
                            pcnt |-> 100]>>
                    ELSE <<>>,
     recalls |-> <<>>]

\* any combination of the three conditions, constant job counts, nobody
\* retires early, nobody starts furloughed
InitCond ==
    \E levels \in 1..MaxLevels :
    \E jobs_arr_arr \in JobCounts(levels) :
    \E conds \in (SUBSET {"prex", "ratio", "count"}) \ {{}} :
    \E egs \in {Interleaved, Swapped}, sgs \in SgCodes :
    \E e \in {1, MaxCareer + 1}, sg_count \in 1..MaxJobs :
    \E weights \in {<<100, 100>>, <<200, 100>>}, limit \in 1..MaxJobs :
        /\ "prex" \in conds \/ (sgs = NoSg /\ sg_count = 1)
        /\ "count" \in conds \/ (weights = <<100, 100>> /\ limit = 1)
        /\ EngineEntry(CondConfig(levels, conds, e, sg_count, weights, limit),
                       egs, sgs, NoFur, NoRetirement, jobs_arr_arr, 0, conds,
                       FALSE)

SpecCond == InitCond /\ [][Next]_vars

\* ---------------------------------------------------- recall families
\* any set of employees starts furloughed
AnyFurCodes == [1..NumEmp -> {0, 1}]

\* recall schedules of one month: [amount, start, end)
RecallSchedules ==
    {[amount |-> a, start |-> b, end |-> b + 1] : a \in 1..MaxJobs, b \in 0..1}

RecallConfig(levels, recalls) ==
    [num_of_job_levels |-> levels,
     delayed_implementation |-> FALSE,
     j_changes |-> <<>>,
     sg_rights |-> <<>>,
     ratio_cond |-> <<>>,
     count_cond |-> <<>>,
     quota_dict |-> <<>>,
     recalls |-> recalls]

\* one recall schedule or two of the same month, constant job counts, nobody retires early
InitRecall ==
    \E levels \in 1..MaxLevels :
    \E jobs_arr_arr \in JobCounts(levels), fur0 \in AnyFurCodes :
    \E x \in RecallSchedules :
    \E recalls \in {<<x>>, <<x, [x EXCEPT !.amount = 1]>>} :
        EngineEntry(RecallConfig(levels, recalls), Interleaved, NoSg, fur0,
                    NoRetirement, jobs_arr_arr, 0, {}, TRUE)

SpecRecall == InitRecall /\ [][Next]_vars

\* every family of initial states
SpecAll == (InitBase \/ InitCond \/ InitRecall) /\ [][Next]_vars

\* ------------------------------------------------- scenarios S3 and S5
\* S3: ten employees, one level with ten jobs, a reduction to five jobs
\* over months [2, 4) and a recall of two a month in month 5; the first a
\* employees are group 1, the model ends with month 5 or with month 6
InitS3 ==
    \E a \in 0..10, last \in 5..6 :
        EngineEntry([num_of_job_levels |-> 1,
                     delayed_implementation |-> FALSE,
                     j_changes |-> <<[job |-> 1, start |-> 2, end |-> 4,
                                      delta |-> -5]>>,
                     sg_rights |-> <<>>,
                     ratio_cond |-> <<>>,
                     count_cond |-> <<>>,
                     quota_dict |-> <<>>,
                     recalls |-> <<[amount |-> 2, start |-> 5, end |-> 6]>>],
                    [e \in 1..10 |-> IF e <= a THEN 1 ELSE 2],
                    [e \in 1..10 |-> 0],
                    [e \in 1..10 |-> 0],
                    [e \in 1..10 |-> last],
                    <<<<a>>, <<10 - a>>>>,
                    0, {}, TRUE)

SpecS3 == InitS3 /\ [][Next]_vars

\* S5: two levels, five employees of group 1 (A) and five of group 2 (B) in
\* any list order, six level-1 jobs in the job counts of A, four level-2
\* jobs in those of B, a capped ratio on level 1 in month 0 with weights
\* (2, 1), limit 6 and percentage 1.0; the model ends with month 1 or 2
InitS5 ==
    \E egs \in [1..10 -> 1..2], last \in 1..2 :
        /\ Cardinality({e \in 1..10 : egs[e] = 1}) = 5
        /\ EngineEntry([num_of_job_levels |-> 2,
                        delayed_implementation |-> FALSE,
                        j_changes |-> <<>>,
                        sg_rights |-> <<>>,
                        ratio_cond |-> <<>>,
                        count_cond |-> <<[job |-> 1, start |-> 0, end |-> 1]>>,
                        quota_dict |-> <<[weights |-> <<200, 100>>, limit |-> 6,
                                          pcnt |-> 100]>>,
                        recalls |-> <<>>],
                       egs,
                       [e \in 1..10 |-> 0],
                       [e \in 1..10 |-> 0],
                       [e \in 1..10 |-> last],
                       <<<<6, 0>>, <<0, 4>>>>,
                       0, {"count"}, FALSE)

SpecS5 == InitS5 /\ [][Next]_vars

\* ------------------------------------------------- the ratio condition
\* a config whose only condition is a ratio on level k over months [0, e)
RatioConfig(levels, k, e) ==
    [num_of_job_levels |-> levels,
     delayed_implementation |-> FALSE,
     j_changes |-> <<>>,
     sg_rights |-> <<>>,
     ratio_cond |-> <<[job |-> k, start |-> 0, end |-> e]>>,
     count_cond |-> <<>>,
     quota_dict |-> <<>>,
     recalls |-> <<>>]

\* the ratio family has one employee more than the other families, so that
\* a level with three jobs leaves an employee without it
RatioEmp == NumEmp + 1

\* a ratio on any one level, either list order of the two interleaved
\* groups, at most one early retirement, constant job counts, nobody starts
\* furloughed
InitRatio ==
    \E levels \in 1..MaxLevels :
    \E jobs_arr_arr \in JobCounts(levels), k \in 1..levels :
    \E first \in 1..2, x \in 0..RatioEmp, c \in {0, MaxCareer - 1} :
    \E e \in {1, MaxCareer + 1} :
        /\ x = 0 => c = 0
        /\ EngineEntry(RatioConfig(levels, k, e),
                       [n \in 1..RatioEmp |->
                           IF n % 2 = 1 THEN first ELSE 3 - first],
                       [n \in 1..RatioEmp |-> 0],
                       [n \in 1..RatioEmp |-> 0],
                       [n \in 1..RatioEmp |->
                           IF n = x THEN c ELSE MaxCareer],
                       jobs_arr_arr, 0, {"ratio"}, FALSE)

SpecRatio == InitRatio /\ [][Next]_vars

\* ------------------------------------------- the pre-existing rights
\* a config whose only condition is a pre-existing right of sg_count jobs
\* on level k over months [0, e)
PrexConfig(levels, k, sg_count, e) ==
    [num_of_job_levels |-> levels,
     delayed_implementation |-> FALSE,
     j_changes |-> <<>>,
     sg_rights |-> <<[job |-> k, count |-> sg_count, start |-> 0, end |-> e]>>,
     ratio_cond |-> <<>>,
     count_cond |-> <<>>,
     quota_dict |-> <<>>,
     recalls |-> <<>>]

\* one employee group, any job counts, any set of sg employees, at most one
\* of them furloughed at the start, a right on the first or the last level
\* for one job or for MaxJobs + 1 jobs, nobody retires early
InitPrex ==
    \E levels \in 1..MaxLevels :
    \E job_arr \in [1..levels -> 0..MaxJobs], k \in {1, levels} :
    \E sgs \in [1..NumEmp -> {0, 1}], fur0 \in FurCodes :
    \E sg_count \in {1, MaxJobs + 1}, e \in {1, MaxCareer + 1} :
        /\ \A x \in 1..NumEmp : fur0[x] = 1 => sgs[x] = 1
        /\ EngineEntry(PrexConfig(levels, k, sg_count, e),
                       [x \in 1..NumEmp |-> 1], sgs, fur0, NoRetirement,
                       <<job_arr>>, 0, {"prex"}, FALSE)

SpecPrex == InitPrex /\ [][Next]_vars

\* ------------------------------------- a group outside the capped ratio
\* three employee groups in any list order; groups 1 and 2 are the two sides
\* of a capped ratio on level 1 over months [0, e), group 3 is outside it;
\* every group has n[g] level-1 jobs and, with more levels, MaxJobs jobs on
\* every other level
InitExcluded ==
    \E levels \in 1..MaxLevels :
    \E egs \in [1..NumEmp -> 1..3], n \in [1..3 -> 0..1] :
    \E weights \in {<<100, 100>>, <<200, 100>>}, limit \in 1..MaxJobs :
    \E e \in {1, MaxCareer + 1} :
        EngineEntry(CondConfig(levels, {"count"}, e, 1, weights, limit),
                    egs, NoSg, NoFur, NoRetirement,
                    [g \in 1..3 |->
                        [k \in 1..levels |-> IF k = 1 THEN n[g] ELSE MaxJobs]],
                    0, {"count"}, FALSE)

SpecExcluded == InitExcluded /\ [][Next]_vars

\* ---------------------------------------------- delayed implementation
\* a delayed implementation: the engine starts with month sm, the orig job
\* column holds the pre-integration jobs of every month.  Nobody retires
\* early, the job counts are constant and every employee who does not start
\* furloughed has a job of the own group, so that the pre-integration job of
\* an employee is the stovepipe job in every month
InitDelayed ==
    \E levels \in 1..MaxLevels :
    \E jobs_arr_arr \in JobCounts(levels), fur0 \in FurCodes :
    \E sm \in 0..MaxCareer :
        /\ \A x \in 1..NumEmp :
               fur0[x] = 0 =>
                   make_original_jobs_from_counts(jobs_arr_arr, Interleaved,
                                                  fur0, levels)[x] \in 1..levels
        /\ EngineEntry([PlainConfig(levels, <<>>)
                           EXCEPT !.delayed_implementation = TRUE],
                       Interleaved, NoSg, fur0, NoRetirement, jobs_arr_arr,
                       sm, {}, FALSE)

SpecDelayed == InitDelayed /\ [][Next]_vars

\* ------------------------------------------------ the random recall
\* a call of mark_for_recall with method = 'random' on the slice of a month
\* of the recall schedules, with the columns as the engine is given them
RandomRecall ==
    /\ pc = "begin"
    /\ \E mth \in get_recall_months(cf.recalls) \cap Months :
       \E r \in mark_for_recall_random(orig[mth], K, fur_data[mth], mth,
                                       cf.recalls, job_totals) :
           /\ month' = mth
           /\ orig' = [orig EXCEPT ![mth] = r.orig]
           /\ fur_data' = [fur_data EXCEPT ![mth] = r.fur]
    /\ pc' = "called"
    /\ UNCHANGED <<inputs, job_change_months, long_assign_column,
                   long_count_column, ratio_cond_dict, job>>

SpecRandomRecall == InitRecall /\ [][RandomRecall]_vars

\* ----------------------------------------------------- the job table
\* job_gain_loss_table from its first statement: the table has the combined
\* initial counts in every month, the job changes are not applied yet
InitTable ==
    \E levels \in 1..MaxLevels :
    \E jobs_arr_arr \in JobCounts(levels) :
    \E changes \in {<<>>} \cup JobChanges(levels) :
        /\ ValidChanges(jobs_arr_arr, levels, changes)
        /\ cf = PlainConfig(levels, changes)
        /\ eg_short = Interleaved
        /\ sg_short = NoSg
        /\ career = NoRetirement
        /\ job_counts_each_month =
               job_gain_loss_table(num_of_months, levels,
                   combined_job_counts(jobs_arr_arr, levels), <<>>)
        /\ job_reduction_months = get_job_reduction_months(changes)
        /\ job_change_months = get_job_change_months(changes)
        /\ start_month = 0
        /\ condition_list = {}
        /\ fur_return = FALSE
        /\ orig = LongForm(make_original_jobs_from_counts(
                               jobs_arr_arr, Interleaved, NoFur, levels))
        /\ fur_data = LongForm(NoFur)
        /\ long_assign_column = zeros
        /\ long_count_column = zeros
        /\ ratio_cond_dict = <<>>
        /\ month = 0
        /\ job = 1
        /\ pc = "table"
        /\ call = NoCall

\* the loop of job_gain_loss_table over the job changes; the engine is
\* entered with its result
JobTable ==
    /\ pc = "table"
    /\ job_counts_each_month' =
           apply_job_changes(job_counts_each_month, cf.j_changes)
    /\ pc' = "begin"
    /\ UNCHANGED <<cf, eg_short, sg_short, career, job_reduction_months,
                   job_change_months, start_month, condition_list, fur_return,
                   orig, fur_data, long_assign_column, long_count_column,
                   ratio_cond_dict, month, job, call>>

NextTable == JobTable \/ Next

SpecTable == InitTable /\ [][NextTable]_vars

\* lists of up to two job change schedules that job_gain_loss_table can
\* index; the counts they lead to are not restricted
ScheduleLists(levels) ==
    {<<>>} \cup JobChanges(levels)
           \cup {a \o b : a \in JobChanges(levels), b \in JobChanges(levels)}

InitSchedules ==
    \E levels \in 1..MaxLevels :
    \E jobs_arr_arr \in JobCounts(levels) :
    \E changes \in ScheduleLists(levels) :
        /\ \A c \in 1..Len(changes) : changes[c].end <= MaxCareer + 1
        /\ cf = PlainConfig(levels, changes)
        /\ eg_short = Interleaved
        /\ sg_short = NoSg
        /\ career = NoRetirement
        /\ job_counts_each_month =
               job_gain_loss_table(num_of_months, levels,
                   combined_job_counts(jobs_arr_arr, levels), <<>>)
        /\ job_reduction_months = get_job_reduction_months(changes)
        /\ job_change_months = get_job_change_months(changes)
        /\ start_month = 0
        /\ condition_list = {}
        /\ fur_return = FALSE
        /\ orig = LongForm(make_original_jobs_from_counts(
                               jobs_arr_arr, Interleaved, NoFur, levels))
        /\ fur_data = LongForm(NoFur)
        /\ long_assign_column = zeros
        /\ long_count_column = zeros
        /\ ratio_cond_dict = <<>>
        /\ month = 0
        /\ job = 1
        /\ pc = "table"
        /\ call = NoCall

\* job_gain_loss_table alone
SpecSchedules == InitSchedules /\ [][JobTable]_vars

\* ------------------------------------------- library functions alone
\* the engine is not running
IdleWith(car) ==
    /\ cf = PlainConfig(1, <<>>)
    /\ eg_short = Interleaved
    /\ sg_short = NoSg
    /\ career = car
    /\ job_counts_each_month =
           job_gain_loss_table(num_of_months, 1, <<0>>, <<>>)
    /\ job_reduction_months = {}
    /\ job_change_months = {}
    /\ start_month = 0
    /\ condition_list = {}
    /\ fur_return = FALSE
    /\ orig = LongForm([e \in 1..NumEmp |-> 2])
    /\ fur_data = LongForm(NoFur)
    /\ long_assign_column = zeros
    /\ long_count_column = zeros
    /\ ratio_cond_dict = <<>>
    /\ month = 0
    /\ job = 1
    /\ pc = "idle"

Idle == IdleWith(NoRetirement)

\* positive weights in hundredths, one for each of n groups
Weights(n) == [1..n -> {50 * i : i \in 1..MaxWeight}]

\* a call of distribute
InitDistribute ==
    /\ Idle
    /\ \E available \in 0..(2 * MaxJobs), n \in 1..MaxGroups :
       \E weights \in Weights(n) :
           call = [fn |-> "distribute", available |-> available,
                   weights |-> weights, returned |-> FALSE, result |-> <<>>]

Distribute ==
    /\ call.fn = "distribute"
    /\ ~call.returned
    /\ call' = [call EXCEPT !.returned = TRUE,
                            !.result = distribute(call.available,
                                                  call.weights)]
    /\ UNCHANGED engine_vars

SpecDistribute == InitDistribute /\ [][Distribute]_vars

\* a call of distribute_vacancies_by_weights
InitVacancies ==
    /\ Idle
    /\ \E available \in 0..(2 * MaxJobs), n \in 2..MaxGroups :
       \E eg_counts \in [1..n -> 0..MaxJobs], weights \in Weights(n) :
           call = [fn |-> "distribute_vacancies_by_weights",
                   available |-> available, eg_counts |-> eg_counts,
                   weights |-> weights, returned |-> FALSE, result |-> <<>>]

DistributeVacancies ==
    /\ call.fn = "distribute_vacancies_by_weights"
    /\ ~call.returned
    /\ call' = [call EXCEPT
                   !.returned = TRUE,
                   !.result = distribute_vacancies_by_weights(
                                  call.available, call.eg_counts,
                                  call.weights)]
    /\ UNCHANGED engine_vars

SpecVacancies == InitVacancies /\ [][DistributeVacancies]_vars

\* the long-form skeleton of a list: count_per_month, gen_month_skeleton,
\* gen_skel_emp_idx and the slice limits of the months, for any careers
InitSkeleton ==
    \E car \in [1..NumEmp -> 0..MaxCareer] :
        /\ IdleWith(car)
        /\ call = [fn |-> "skeleton", stage |-> "called",
                   month_count |-> <<>>, mnum |-> <<>>, idx |-> <<>>,
                   lower |-> <<>>, upper |-> <<>>]

CountPerMonth ==
    /\ call.fn = "skeleton" /\ call.stage = "called"
    /\ call' = [call EXCEPT !.stage = "counted",
                            !.month_count = month_count_array]
    /\ UNCHANGED engine_vars

GenMonthSkeleton ==
    /\ call.fn = "skeleton" /\ call.stage = "counted"
    /\ call' = [call EXCEPT !.stage = "months",
                            !.mnum = gen_month_skeleton(call.month_count)]
    /\ UNCHANGED engine_vars

GenSkelEmpIdx ==
    /\ call.fn = "skeleton" /\ call.stage = "months"
    /\ call' = [call EXCEPT !.stage = "skeleton",
                            !.idx = skel_emp_idx]
    /\ UNCHANGED engine_vars

MakeSliceLimits ==
    /\ call.fn = "skeleton" /\ call.stage = "skeleton"
    /\ LET limits == make_lower_and_upper_slice_limits(call.mnum)
       IN  call' = [call EXCEPT !.stage = "sliced",
                                !.lower = limits.lower,
                                !.upper = limits.upper]
    /\ UNCHANGED engine_vars

NextSkeleton ==
    \/ CountPerMonth
    \/ GenMonthSkeleton
    \/ GenSkelEmpIdx
    \/ MakeSliceLimits

SpecSkeleton == InitSkeleton /\ [][NextSkeleton]_vars

\* a call of make_original_jobs_from_counts: the job counts of two groups,
\* any group and furlough codes
InitOriginalJobs ==
    /\ Idle
    /\ \E levels \in 1..MaxLevels :
       \E jobs_arr_arr \in [1..2 -> [1..levels -> 0..MaxJobs]] :
       \E eg_array \in [1..NumEmp -> 1..2], fur_array \in FurCodes :
           call = [fn |-> "make_original_jobs_from_counts",
                   jobs_arr_arr |-> jobs_arr_arr, eg_array |-> eg_array,
                   fur_array |-> fur_array, num_levels |-> levels,
                   returned |-> FALSE, result |-> <<>>]

MakeOriginalJobs ==
    /\ call.fn = "make_original_jobs_from_counts"
    /\ ~call.returned
    /\ call' = [call EXCEPT
                   !.returned = TRUE,
                   !.result = make_original_jobs_from_counts(
                                  call.jobs_arr_arr, call.eg_array,
                                  call.fur_array, call.num_levels)]
    /\ UNCHANGED engine_vars

SpecOriginalJobs == InitOriginalJobs /\ [][MakeOriginalJobs]_vars

\* the seniority numbers of the engine's result: create_snum_and_spcnt_arrays
\* on the assigned jobs of all months, after the engine has returned
SnumAndSpcnt ==
    /\ pc = "done"
    /\ call = NoCall
    /\ LET jnums == Flatten([i \in 1..num_of_months |->
                                long_assign_column[i - 1]])
           made == create_snum_and_spcnt_arrays(jnums, K, month_count_array)
       IN  call' = [fn |-> "create_snum_and_spcnt_arrays", jnums |-> jnums,
                    snum |-> made.snum, lnum |-> made.lnum]
    /\ UNCHANGED engine_vars

NextSnum == Next \/ SnumAndSpcnt

SpecSnum == InitNoFur /\ [][NextSnum]_vars

\* a ratio on level k over the months [a, e) in an engine that starts with
\* month sm: nobody retires early, the job counts are constant and every
\* employee has a job of the own group
InitRatioStart ==
    \E levels \in 1..MaxLevels :
    \E jobs_arr_arr \in JobCounts(levels), k \in 1..levels :
    \E sm \in 0..MaxCareer, a \in 0..1, e \in {2, MaxCareer + 1} :
        /\ \A x \in 1..NumEmp :
               make_original_jobs_from_counts(jobs_arr_arr, Interleaved,
                                              NoFur, levels)[x] \in 1..levels
        /\ EngineEntry([RatioConfig(levels, k, e) EXCEPT
                            !.delayed_implementation = TRUE,
                            !.ratio_cond =
                                <<[job |-> k, start |-> a, end |-> e]>>],
                       Interleaved, NoSg, NoFur, NoRetirement, jobs_arr_arr,
                       sm, {"ratio"}, FALSE)

SpecRatioStart == InitRatioStart /\ [][Next]_vars

\* ------------------------------------------- the full-flush stovepipe
\* np.put(a, ind, v) for an ascending index set: v is repeated as necessary
\* when it is shorter than ind, its surplus is dropped when it is longer
np_put(a, ind, v) ==
    IF Len(v) = 0
    THEN a
    ELSE [i \in 1..Len(a) |->
             IF i \in ind THEN v[1 + (Rank(ind, i) % Len(v))] ELSE a[i]]

\* make_stovepipe_jobs_from_jobs_arr: every level repeated by its job count,
\* in an array of sum(jobs_arr) entries, or of total_emp_count zeros when
\* that is given
make_stovepipe_jobs_from_jobs_arr(jobs_arr, total_emp_count) ==
    LET size == IF total_emp_count = 0 THEN Sum(jobs_arr) ELSE total_emp_count
        upto(k) == Sum(SubSeq(jobs_arr, 1, k))
    IN  [p \in 1..size |->
            IF p > Sum(jobs_arr) THEN 0
            ELSE CHOOSE k \in 1..Len(jobs_arr) : upto(k - 1) < p /\ p <= upto(k)]

\* assign_jobs_full_flush_skip_furs: every month takes the job list from the
\* top for its rows that are not furloughed; the rows left at 0 get the
\* furlough level
assign_jobs_full_flush_skip_furs(monthly_nonret_counts, job_list, fur_arr, job_level_count) ==
    [m \in DOMAIN monthly_nonret_counts |->
        LET count == monthly_nonret_counts[m]
            fur_slice == fur_arr[m]
            jobs_segment == SubSeq(job_list, 1, Min(count, Len(job_list)))
            target_slice == np_put([i \in 1..count |-> 0],
                                   {i \in 1..count : fur_slice[i] = 0},
                                   jobs_segment)
        IN  [i \in 1..count |->
                IF target_slice[i] = 0 THEN job_level_count + 1
                ELSE target_slice[i]]]

\* monotonic: no entry of the sequence is below the entry before it
monotonic(sequence) ==
    \A i \in 1..(Len(sequence) - 1) : sequence[i + 1] - sequence[i] >= 0

\* the runs with constant job counts, no conditions and no recall
InitSteady == InitBase /\ cf.j_changes = <<>>

SpecSteady == InitSteady /\ [][Next]_vars

\* ------------------------------- initial jobs with pre-existing rights
\* the job loop of make_stovepipe_prex_shortform from level job on;
\* sg_rights rows are [job, count], this_count is the number of levels with
\* rights met so far and indexes the count column
RECURSIVE prex_shortform_from(_, _, _, _, _, _, _)
prex_shortform_from(job_no, this_count, o_job, job_list, sg_codes, sg_rights, fur_codes) ==
    IF job_no > Len(job_list)
    THEN o_job
    ELSE LET i == job_list[job_no]
             n == Len(o_job)
             sg_allotment == sg_rights[this_count + 1].count
             a1 == Put(o_job,
                       First({x \in 1..n : sg_codes[x] = 1 /\ o_job[x] = 0
                                           /\ fur_codes[x] = 0},
                             sg_allotment),
                       job_no)
             a2 == Put(a1,
                       First({x \in 1..n : a1[x] = 0 /\ fur_codes[x] = 0},
                             i - sg_allotment),
                       job_no)
             plain == Put(o_job,
                          First({x \in 1..n : o_job[x] = 0 /\ fur_codes[x] = 0},
                                i),
                          job_no)
         IN  IF \E r \in 1..Len(sg_rights) : sg_rights[r].job = job_no
             THEN prex_shortform_from(job_no + 1, this_count + 1, a2,
                                      job_list, sg_codes, sg_rights, fur_codes)
             ELSE prex_shortform_from(job_no + 1, this_count, plain,
                                      job_list, sg_codes, sg_rights, fur_codes)

\* make_stovepipe_prex_shortform: the stovepipe jobs of one employee group
\* with the first jobs of the levels with rights reserved for sg == 1
make_stovepipe_prex_shortform(job_list, sg_codes, sg_rights, fur_codes) ==
    prex_shortform_from(1, 0, [x \in 1..Len(sg_codes) |-> 0], job_list,
                        sg_codes, sg_rights, fur_codes)

\* the rights of a config: a row for level 1, or rows for levels 1 and 2,
\* with counts up to one more than a level can have jobs
SgRights(levels) ==
    {<<[job |-> 1, count |-> c]>> : c \in 0..(MaxJobs + 1)}
    \cup (IF levels >= 2
          THEN {<<[job |-> 1, count |-> c], [job |-> 2, count |-> d]>> :
                   c \in 0..(MaxJobs + 1), d \in 0..(MaxJobs + 1)}
          ELSE {})

\* a call of make_stovepipe_prex_shortform
InitPrexShortform ==
    /\ Idle
    /\ \E levels \in 1..MaxLevels :
       \E job_list \in [1..levels -> 0..MaxJobs] :
       \E sg_codes \in [1..NumEmp -> 0..1], fur_codes \in FurCodes :
       \E sg_rights \in SgRights(levels) :
           call = [fn |-> "make_stovepipe_prex_shortform",
                   job_list |-> job_list, sg_codes |-> sg_codes,
                   sg_rights |-> sg_rights, fur_codes |-> fur_codes,
                   returned |-> FALSE, result |-> <<>>]

MakeStovepipePrexShortform ==
    /\ call.fn = "make_stovepipe_prex_shortform"
    /\ ~call.returned
    /\ call' = [call EXCEPT
                   !.returned = TRUE,
                   !.result = make_stovepipe_prex_shortform(
                                  call.job_list, call.sg_codes,
                                  call.sg_rights, call.fur_codes)]
    /\ UNCHANGED engine_vars

SpecPrexShortform == InitPrexShortform /\ [][MakeStovepipePrexShortform]_vars

\* ------------------------------------------------ squeeze_increment
\* the positions (from 0) of the slice [lo:hi] of an array of n entries
SlicePositions(n, lo, hi) ==
    LET first == IF lo < 0 THEN Max(n + lo, 0) ELSE Min(lo, n)
        last == IF hi < 0 THEN Max(n + hi, 0) ELSE Min(hi, n)
    IN  first..(last - 1)

\* scipy.stats.rankdata(a, method='ordinal') over the positions S of a: equal
\* values are ranked in the order in which they occur
rankdata_ordinal(a, S, p) ==
    1 + Cardinality({q \in S : a[q + 1] < a[p + 1]
                                \/ (a[q + 1] = a[p + 1] /\ q < p)})

\* squeeze_increment: new_order and eg_arr are the order and eg columns of
\* data in row order; the result is <<>> for None
squeeze_increment(new_order, eg_arr, eg, senior_num, junior_num, increment) ==
    LET L == IF senior_num < 0 THEN 0 ELSE senior_num
        H == junior_num
        zone == SlicePositions(Len(new_order), L, H)
        moved == [x \in 1..Len(new_order) |->
                     IF (x - 1) \in zone /\ eg_arr[x] = eg
                     THEN new_order[x] + increment
                     ELSE new_order[x]]
    IN  IF junior_num <= senior_num
        THEN <<>>
        ELSE [x \in 1..Len(new_order) |->
                 IF (x - 1) \in zone
                 THEN rankdata_ordinal(moved, zone, x - 1) - 1 + L
                 ELSE moved[x]]

\* a call of squeeze_increment on a list sorted by its order column, two
\* employee groups, a zone that begins and ends on the list or up to three
\* places before it or one place after it
InitSqueeze ==
    /\ Idle
    /\ \E n \in 1..MaxList :
       \E eg_arr \in [1..n -> 1..2], eg \in 1..2 :
       \E senior_num \in (-3)..n, junior_num \in (-2)..(n + 1) :
       \E increment \in (-MaxIncrement)..MaxIncrement :
           /\ junior_num > senior_num
           /\ call = [fn |-> "squeeze_increment",
                      new_order |-> [x \in 1..n |-> x - 1],
                      eg_arr |-> eg_arr, eg |-> eg,
                      senior_num |-> senior_num, junior_num |-> junior_num,
                      increment |-> increment,
                      returned |-> FALSE, result |-> <<>>]

SqueezeIncrement ==
    /\ call.fn = "squeeze_increment"
    /\ ~call.returned
    /\ call' = [call EXCEPT
                   !.returned = TRUE,
                   !.result = squeeze_increment(
                                  call.new_order, call.eg_arr, call.eg,
                                  call.senior_num, call.junior_num,
                                  call.increment)]
    /\ UNCHANGED engine_vars

SpecSqueeze == InitSqueeze /\ [][SqueezeIncrement]_vars

\* --------------------------------------------------------- properties
\* month m has been processed by the engine
MonthDone(m) == m \in Months /\ m >= start_month /\ m < month

\* the employees that hold level k in month m
Holders(m, k) == {i \in 1..Len(long_assign_column[m]) :
                     long_assign_column[m][i] = k}

\* C1: capacity.  After a month has been processed, no job level of the
\* month has more employees assigned to it than the job table has jobs of
\* that level, whatever conditions act on the level.
C1_Capacity ==
    \A m \in Months : MonthDone(m) =>
        \A k \in 1..K : Cardinality(Holders(m, k)) <= job_counts_each_month[m][k]

\* the row of employee e in the slice of month m
RowOf(m, e) == 1 + Cardinality({x \in Emps : x < e /\ career[x] >= m})

\* employee e has a row in month m
Active(m, e) == e \in Emps /\ m \in Months /\ career[e] >= m

\* the rows of month m with a real job level, and the furloughed rows
RealLevelRows(m) == {i \in 1..Len(long_assign_column[m]) :
                        long_assign_column[m][i] \in 1..K}

FurRows(m) == {i \in 1..Len(fur_data[m]) : fur_data[m][i] = 1}

\* C2: conservation.  In every processed month each row of the month's slice
\* either holds a real job level or has fur = 1, never both and never
\* neither, so the two counts add up to the size of the slice.
C2_Conservation ==
    \A m \in Months : MonthDone(m) =>
        /\ RealLevelRows(m) \cap FurRows(m) = {}
        /\ RealLevelRows(m) \cup FurRows(m) = 1..count_per_month(m)
        /\ Cardinality(RealLevelRows(m)) + Count(fur_data[m], 1)
               = count_per_month(m)

\* a processed month outside the reduction months in which an employee who
\* held a job the month before is left without one and is marked furloughed
\* at the end of the month, beside employees who hold a job
C2_Witness ==
    \E m \in Months \ {0} : \E e \in Emps :
        /\ MonthDone(m) /\ MonthDone(m - 1) /\ Active(m, e)
        /\ m \notin job_reduction_months
        /\ long_assign_column[m - 1][RowOf(m - 1, e)] \in 1..K
        /\ fur_data[m - 1][RowOf(m - 1, e)] = 0
        /\ fur_data[m][RowOf(m, e)] = 1
        /\ RealLevelRows(m) # {}

assigned_job(m, e) ==
    LET a == long_assign_column[m][RowOf(m, e)]
    IN  IF a = 0 THEN K + 1 ELSE a

\* a pre-ex, ratio or capped-ratio condition is in effect in month m
CondInEffect(m) ==
    \/ "prex" \in condition_list /\ m \in cond_month_range(cf.sg_rights)
    \/ "ratio" \in condition_list /\ m \in cond_month_range(cf.ratio_cond)
    \/ "count" \in condition_list /\ m \in cond_month_range(cf.count_cond)

\* no job level has fewer jobs in month m than in month m - 1
NoLevelReduced(m) ==
    \A k \in 1..K :
        job_counts_each_month[m][k] >= job_counts_each_month[m - 1][k]

\* C4: NBNF monotonicity.  An employee present in the processed months m and
\* m + 1 has no worse job in m + 1 than in m, when no job level's count is
\* reduced from m to m + 1 and no condition is in effect in m + 1.
C4_NbnfMonotone ==
    \A m \in Months : \A e \in Emps :
        (/\ MonthDone(m) /\ MonthDone(m + 1) /\ Active(m + 1, e)
         /\ NoLevelReduced(m + 1)
         /\ ~CondInEffect(m + 1))
        => assigned_job(m + 1, e) <= assigned_job(m, e)

\* NBNF monotonicity from the months m whose capacity was kept
C4_AfterCapacity ==
    \A m \in Months : \A e \in Emps :
        (/\ MonthDone(m) /\ MonthDone(m + 1) /\ Active(m + 1, e)
         /\ NoLevelReduced(m + 1)
         /\ ~CondInEffect(m + 1)
         /\ \A k \in 1..K :
                Cardinality(Holders(m, k)) <= job_counts_each_month[m][k])
        => assigned_job(m + 1, e) <= assigned_job(m, e)

\* the job employee e held in month m - 1 is a real level, both months are
\* processed and e is present in month m
HeldBefore(m, e) ==
    /\ m - 1 \in Months
    /\ MonthDone(m - 1) /\ MonthDone(m) /\ Active(m, e)
    /\ long_assign_column[m - 1][RowOf(m - 1, e)] \in 1..K

\* the NBNF invariant of the data model as it is written: the level held in
\* month m - 1 still has jobs in month m, no condition is configured, and
\* the employee is assigned that level or a better one
C5_AsStated ==
    \A m \in Months : \A e \in Emps :
        (/\ HeldBefore(m, e)
         /\ job_counts_each_month[m][long_assign_column[m - 1][RowOf(m - 1, e)]] > 0
         /\ condition_list = {})
        => long_assign_column[m][RowOf(m, e)]
               \in 1..long_assign_column[m - 1][RowOf(m - 1, e)]

\* C5: the NBNF invariant.  An employee who held level j in month m - 1 and
\* is present in month m is assigned a real level <= j in month m, when no
\* job level has fewer jobs in month m than in month m - 1 and the run has
\* no pre-ex, ratio or capped-ratio condition.
C5_NbnfKeepsJob ==
    condition_list = {} =>
        \A m \in 1..(month - 1) :
            NoLevelReduced(m) =>
                \A e \in Emps :
                    HeldBefore(m, e)
                    => long_assign_column[m][RowOf(m, e)]
                           \in 1..long_assign_column[m - 1][RowOf(m - 1, e)]

\* an employee moves to a better level than the one held the month before,
\* and another keeps a level, in a month without a reduced level
C5_Witness ==
    \E m \in Months : \E e, x \in Emps :
        /\ HeldBefore(m, e) /\ HeldBefore(m, x)
        /\ NoLevelReduced(m)
        /\ condition_list = {}
        /\ long_assign_column[m][RowOf(m, e)]
               < long_assign_column[m - 1][RowOf(m - 1, e)]
        /\ long_assign_column[m][RowOf(m, x)]
               = long_assign_column[m - 1][RowOf(m - 1, x)]

\* the set P is a prefix by list order of the set S of rows
IsPrefix(P, S) == P \subseteq S /\ \A i \in P : \A x \in S : x < i => x \in P

\* the rows of the month that a step assigns to the level of the loop
NewlyAssigned ==
    {i \in 1..Len(long_assign_column[month]) :
        long_assign_column[month][i] = 0 /\ long_assign_column'[month][i] = job}

\* the unassigned non-furloughed rows of the month
Unassigned ==
    {i \in 1..Len(long_assign_column[month]) :
        long_assign_column[month][i] = 0 /\ fur_data[month][i] = 0}

\* the NBNF fill assigns a prefix of the unassigned non-furloughed rows with
\* orig <= job, and nothing else changes
NbnfStepPrefix ==
    (pc = "nbnf" /\ ~CondInEffect(month)) =>
        /\ IsPrefix(NewlyAssigned, {i \in Unassigned : orig[month][i] <= job})
        /\ \A i \in 1..Len(long_assign_column[month]) :
               i \in NewlyAssigned
               \/ long_assign_column'[month][i] = long_assign_column[month][i]

\* the seniority fill assigns a prefix of the unassigned non-furloughed rows
FillStepPrefix ==
    (pc = "fill" /\ ~CondInEffect(month)) =>
        /\ IsPrefix(NewlyAssigned, Unassigned)
        /\ \A i \in 1..Len(long_assign_column[month]) :
               i \in NewlyAssigned
               \/ long_assign_column'[month][i] = long_assign_column[month][i]

\* when the levels of a month are done: of two non-furloughed rows with the
\* same orig job the senior one has no worse level than the junior one
SeniorNotWorse ==
    (pc = "align" /\ ~CondInEffect(month)) =>
        \A i, n \in 1..Len(long_assign_column[month]) :
            (/\ i < n
             /\ fur_data[month][i] = 0 /\ fur_data[month][n] = 0
             /\ orig[month][i] = orig[month][n])
            => (IF long_assign_column[month][i] = 0 THEN K + 1
                ELSE long_assign_column[month][i])
               <= (IF long_assign_column[month][n] = 0 THEN K + 1
                   ELSE long_assign_column[month][n])

\* C6: seniority ordering.  In a month without a condition in effect, the
\* NBNF fill of a level assigns a prefix by list order of the unassigned
\* non-furloughed employees with orig <= level, the seniority fill then
\* assigns a prefix of the remaining unassigned non-furloughed employees, and
\* of two non-furloughed employees with the same orig job the senior one
\* never gets a worse level than the junior one.
C6_SeniorityOrder ==
    [][NbnfStepPrefix /\ FillStepPrefix]_vars /\ [](SeniorNotWorse)

\* the levels of a month are done; the NBNF fill has kept a junior employee
\* on level 1 while a senior one has a worse level, and two non-furloughed
\* employees with the same orig job have different levels
C6_Witness ==
    /\ pc = "align" /\ ~CondInEffect(month)
    /\ \E i, n \in 1..Len(long_assign_column[month]) :
           /\ i < n
           /\ long_assign_column[month][n] = 1 /\ orig[month][n] = 1
           /\ long_assign_column[month][i] \notin {0, 1}
    /\ \E i, n \in 1..Len(long_assign_column[month]) :
           /\ i < n
           /\ fur_data[month][i] = 0 /\ fur_data[month][n] = 0
           /\ orig[month][i] = orig[month][n]
           /\ long_assign_column[month][i] # 0
           /\ long_assign_column[month][i] # long_assign_column[month][n]

\* the rows that the furlough step of the month marks as furloughed
NewlyFurloughed ==
    {i \in 1..Len(fur_data[month]) :
        fur_data[month][i] = 0 /\ fur_data'[month][i] = 1}

\* the furlough step marks n rows: the n most junior non-furloughed rows
\* get fur = 1 and orig = K + 1, and no other fur or orig entry changes
FurloughMarks(n) ==
    LET non_fur == {i \in 1..Len(fur_data[month]) : fur_data[month][i] = 0}
    IN  /\ Cardinality(NewlyFurloughed) = n
        /\ \A i \in NewlyFurloughed : \A x \in non_fur : x > i => x \in NewlyFurloughed
        /\ \A i \in 1..Len(fur_data[month]) :
               IF i \in NewlyFurloughed
               THEN orig'[month][i] = K + 1
               ELSE /\ orig'[month][i] = orig[month][i]
                    /\ fur_data'[month][i] = fur_data[month][i]
        /\ \A m \in Months \ {month} :
               orig'[m] = orig[m] /\ fur_data'[m] = fur_data[m]

\* Step B as it is written: in a reduction month with fewer jobs than rows
\* of the slice, the number of newly furloughed rows is the size of the
\* slice less the jobs
C7_AsStated ==
    [][(/\ pc = "furlough"
        /\ month \in job_reduction_months
        /\ job_totals[month] < count_per_month(month))
       => FurloughMarks(count_per_month(month) - job_totals[month])]_vars

\* a single-level reduction that starts after month 0 from a month in which
\* every employee held level 1, and nobody retires
SingleLevelReduction ==
    /\ K = 1
    /\ Len(cf.j_changes) = 1
    /\ cf.j_changes[1].delta < 0
    /\ cf.j_changes[1].start >= 1
    /\ \A e \in Emps : career[e] = num_of_months - 1
    /\ MonthDone(cf.j_changes[1].start - 1)
    /\ \A i \in 1..Len(long_assign_column[cf.j_changes[1].start - 1]) :
           long_assign_column[cf.j_changes[1].start - 1][i] = 1

\* from the last month of the reduction on, the T[m] most senior employees
\* hold level 1 and the others are furloughed
ReductionCompleted ==
    SingleLevelReduction =>
        \A m \in Months :
            (MonthDone(m) /\ m >= cf.j_changes[1].end - 1) =>
                \A i \in 1..count_per_month(m) :
                    IF i <= job_totals[m]
                    THEN long_assign_column[m][i] = 1 /\ fur_data[m][i] = 0
                    ELSE long_assign_column[m][i] \in {0, K + 1}
                         /\ fur_data[m][i] = 1

\* C7: Step B.  In a reduction month the furlough step marks exactly
\* count(fur == 0) - T[m] employees when T[m] < count(fur == 0) and nobody
\* otherwise; they are the most junior non-furloughed employees of the
\* slice, their orig becomes K + 1 and nobody else's fur or orig changes;
\* outside the reduction months the step changes nothing.  After a
\* single-level reduction that started from everybody holding level 1, with
\* no retirements, exactly the T[m] most senior employees hold level 1 and
\* the rest are furloughed.
C7_FurloughStep ==
    /\ [][pc = "furlough" =>
             FurloughMarks(
                 IF /\ month \in job_reduction_months
                    /\ job_totals[month] < Count(fur_data[month], 0)
                 THEN Count(fur_data[month], 0) - job_totals[month]
                 ELSE 0)]_vars
    /\ [](ReductionCompleted)

\* after the furlough step of the second month of a single-level reduction
\* that started from everybody holding level 1: an employee who held a job
\* the month before is now furloughed with orig K + 1, beside an employee
\* who was furloughed already
C7_Witness ==
    /\ pc = "recall"
    /\ SingleLevelReduction
    /\ month \in job_reduction_months /\ month >= 1
    /\ \E e, x \in Emps :
           /\ Active(month, e) /\ Active(month, x)
           /\ fur_data[month - 1][RowOf(month - 1, e)] = 0
           /\ long_assign_column[month - 1][RowOf(month - 1, e)] \in 1..K
           /\ fur_data[month][RowOf(month, e)] = 1
           /\ orig[month][RowOf(month, e)] = K + 1
           /\ fur_data[month - 1][RowOf(month - 1, x)] = 1
           /\ fur_data[month][RowOf(month, x)] = 1

\* the rows whose fur code the recall step of the month clears
Recalled ==
    {i \in 1..Len(fur_data[month]) :
        fur_data[month][i] = 1 /\ fur_data'[month][i] = 0}

\* the amounts of the recall schedules that cover month m, added up
RECURSIVE recall_amount(_, _)
recall_amount(scheds, m) ==
    IF scheds = <<>> THEN 0
    ELSE (IF m \in Head(scheds).start..(Head(scheds).end - 1)
          THEN Head(scheds).amount ELSE 0)
         + recall_amount(Tail(scheds), m)

\* the recall step clears the fur code of n rows: the n most senior
\* furloughed rows get fur = 0 and orig = K + 1, nothing else changes
RecallClears(n) ==
    LET furloughed == {i \in 1..Len(fur_data[month]) : fur_data[month][i] = 1}
    IN  /\ Cardinality(Recalled) = n
        /\ IsPrefix(Recalled, furloughed)
        /\ \A i \in 1..Len(fur_data[month]) :
               IF i \in Recalled
               THEN orig'[month][i] = K + 1
               ELSE /\ orig'[month][i] = orig[month][i]
                    /\ fur_data'[month][i] = fur_data[month][i]
        /\ \A m \in Months \ {month} :
               orig'[m] = orig[m] /\ fur_data'[m] = fur_data[m]

\* C8: Step C.  In a month covered by a recall schedule the recall step
\* clears the fur code of min(amount, T[m] - count(fur == 0), number of
\* furloughees) employees, the amount being the sum over the schedules that
\* cover the month, and of nobody when T[m] <= count(fur == 0); they are the
\* most senior furloughees, the total never exceeds the surplus
\* T[m] - count(fur == 0), and the orig of each becomes K + 1.
C8_RecallStep ==
    [][(pc = "recall" /\ fur_return /\ month \in get_recall_months(cf.recalls))
       => LET surplus == job_totals[month] - Count(fur_data[month], 0)
          IN  /\ RecallClears(
                     IF surplus <= 0 THEN 0
                     ELSE Min(recall_amount(cf.recalls, month),
                              Min(surplus, Count(fur_data[month], 1))))
              /\ Cardinality(Recalled) <= Max(surplus, 0)]_vars

\* after the recall step of month 1, where two schedules overlap: a
\* furloughee of month 0 is recalled, a junior one stays furloughed though
\* the schedules ask for more, because the surplus is used up
C8_Witness ==
    /\ pc = "prex" /\ job = 1 /\ month = 1
    /\ fur_return /\ month \in get_recall_months(cf.recalls)
    /\ Len(cf.recalls) = 2
    /\ \E i, n \in 1..Len(fur_data[1]) :
           /\ i < n
           /\ fur_data[0][i] = 1 /\ fur_data[1][i] = 0 /\ orig[1][i] = K + 1
           /\ fur_data[0][n] = 1 /\ fur_data[1][n] = 1
    /\ Count(fur_data[1], 0) = job_totals[1]
    /\ recall_amount(cf.recalls, 1) > Cardinality(
           {i \in 1..Len(fur_data[1]) : fur_data[0][i] = 1 /\ fur_data[1][i] = 0})

\* the finished reduction of S2: in month 4 the five most senior employees
\* hold level 1 and the five others are furloughed
S2Finished ==
    /\ MonthDone(4)
    /\ \A i \in 1..10 :
           IF i <= 5
           THEN long_assign_column[4][i] = 1 /\ fur_data[4][i] = 0
           ELSE long_assign_column[4][i] \in {0, K + 1} /\ fur_data[4][i] = 1

\* S3 as it is written: in month 5 the two most senior furloughees, the
\* employees 6 and 7, are not furloughed and hold a real level
C9_AsStated ==
    MonthDone(5) =>
        \A i \in 6..7 :
            fur_data[5][i] = 0 /\ long_assign_column[5][i] \in 1..K

\* C9: scenario S3.  After the finished reduction of S2 the job count of
\* month 5 equals the number of non-furloughed employees, so the recall step
\* of month 5 recalls nobody: it changes no fur code and no orig job, the
\* five most senior employees keep level 1 and the five others stay
\* furloughed.
C9_NoRecallInS3 ==
    /\ [][(pc = "recall" /\ month = 5)
          => (fur_data' = fur_data /\ orig' = orig)]_vars
    /\ [](MonthDone(5) =>
             /\ S2Finished
             /\ job_totals[5] = Count(fur_data[4], 0)
             /\ \A i \in 1..10 :
                    IF i <= 5
                    THEN long_assign_column[5][i] = 1 /\ fur_data[5][i] = 0
                    ELSE long_assign_column[5][i] \in {0, K + 1}
                         /\ fur_data[5][i] = 1)

\* month 5 of S3 is processed, with a recall schedule that covers it, from
\* the finished reduction of S2
C9_Witness ==
    /\ S2Finished
    /\ MonthDone(5)
    /\ fur_return /\ 5 \in get_recall_months(cf.recalls)
    /\ Count(fur_data[5], 1) = 5

\* the rows of group g that hold level k in month m
GroupHolders(m, k, g) == {i \in Holders(m, k) : eg_data[m][i] = g}

\* S5 as it is written: after the cap month level 1 is held by four A and
\* two B employees, and an A member holds level 2
C10_AsStated ==
    (MonthDone(0) /\ "count" \in condition_list) =>
        /\ Cardinality(GroupHolders(0, 1, 1)) = 4
        /\ Cardinality(GroupHolders(0, 1, 2)) = 2
        /\ GroupHolders(0, 2, 1) # {}

\* C10: scenario S5.  The five A employees hold five of the six level-1
\* jobs at the start of the cap month.  After the month level 1 is held by
\* the five A employees and by one B employee, the most senior of B, who
\* takes the vacancy; no A member is displaced to level 2, the four other B
\* employees hold level 2.
C10_CappedRatioS5 ==
    (MonthDone(0) /\ "count" \in condition_list) =>
        /\ GroupHolders(0, 1, 1) = {i \in 1..10 : eg_data[0][i] = 1}
        /\ Cardinality(GroupHolders(0, 1, 1)) = 5
        /\ Cardinality(GroupHolders(0, 1, 2)) = 1
        /\ IsPrefix(GroupHolders(0, 1, 2), {i \in 1..10 : eg_data[0][i] = 2})
        /\ GroupHolders(0, 2, 1) = {}
        /\ Cardinality(GroupHolders(0, 2, 2)) = 4

\* the cap month of S5 is processed: level 1 has its six holders, and the
\* B employee among them, who had orig 2, is junior to an A employee
C10_Witness ==
    /\ MonthDone(0) /\ "count" \in condition_list
    /\ cf.quota_dict[1].limit = 6
    /\ Cardinality(Holders(0, 1)) = 6
    /\ \E i \in GroupHolders(0, 1, 2) : \E n \in GroupHolders(0, 1, 1) :
           n < i /\ orig[0][i] = 2

\* ------------------------------------------------ the ratio condition
\* the engine is about to record level job of a month and a level on which
\* the ratio condition acted
RatioLevelAssigned ==
    /\ pc = "jcount"
    /\ "ratio" \in condition_list
    /\ month \in cond_month_range(cf.ratio_cond)
    /\ job \in cond_jobs(cf.ratio_cond)

\* round(r[k] * J[m][k]) for the level that is being processed
ratio_eg_job_count == Round(ratio_cond_dict[job][1] * this_job_count, 100)

\* the rows of the month that were unassigned and not furloughed when the
\* level was reached: the reference group (ref = TRUE) or the other groups
RatioCandidates(ref) ==
    {i \in 1..Len(long_assign_column[month]) :
        /\ long_assign_column[month][i] \notin 1..(job - 1)
        /\ fur_data[month][i] = 0
        /\ (eg_data[month][i] = 1) = ref}

\* the holders of the level that are not of the reference group
OtherHolders == {i \in Holders(month, job) : eg_data[month][i] # 1}

\* the ratio counts as they are written: the two exact counts in every
\* month of the ratio period
C11_AsStated ==
    RatioLevelAssigned =>
        /\ Cardinality(GroupHolders(month, job, 1)) = ratio_eg_job_count
        /\ Cardinality(OtherHolders) = this_job_count - ratio_eg_job_count

\* enough employees of either side were free for the two counts
RatioFeasible ==
    /\ Cardinality(RatioCandidates(TRUE)) >= ratio_eg_job_count
    /\ Cardinality(RatioCandidates(FALSE))
           >= this_job_count - ratio_eg_job_count

\* C11: ratio counts.  In a month of the ratio period and for a ratio level
\* k, after the ratio step and the NBNF and seniority fills of the level,
\* exactly round(r[k] * J[m][k]) employees of the reference group and
\* exactly J[m][k] - round(r[k] * J[m][k]) employees of the other groups
\* hold level k, provided that many employees of the reference group and of
\* the other groups were unassigned and not furloughed when the level was
\* reached and the ratio is the only condition of the run.
C11_RatioCounts ==
    (RatioLevelAssigned /\ RatioFeasible /\ condition_list = {"ratio"}) =>
        /\ Cardinality(GroupHolders(month, job, 1)) = ratio_eg_job_count
        /\ Cardinality(OtherHolders) = this_job_count - ratio_eg_job_count

\* a later month of the ratio period in which a junior employee of the
\* reference group holds the ratio level and a senior employee of another
\* group, who is not furloughed, does not
C11_Witness ==
    /\ RatioLevelAssigned /\ RatioFeasible /\ condition_list = {"ratio"}
    /\ month > 0
    /\ ratio_eg_job_count > 0
    /\ \E i \in GroupHolders(month, job, 1) :
       \E n \in 1..Len(long_assign_column[month]) :
           /\ n < i
           /\ eg_data[month][n] # 1
           /\ fur_data[month][n] = 0
           /\ long_assign_column[month][n] = 0

\* |ref / total - r| <= 1 / J for the level that is being processed, in
\* integers: r is in hundredths
ShareWithinOneJob ==
    LET ref == Cardinality(GroupHolders(month, job, 1))
        total == Cardinality(Holders(month, job))
        diff == 100 * ref - ratio_cond_dict[job][1] * total
    IN  (IF diff >= 0 THEN diff ELSE -diff) * this_job_count <= 100 * total

\* the ratio stability as it is written: in every month of the period
C12_AsStated ==
    (/\ RatioLevelAssigned
     /\ this_job_count > 0
     /\ Holders(month, job) # {})
    => ShareWithinOneJob

\* C12: ratio stability.  In a month of the frozen-ratio period, for a ratio
\* level k with J[m][k] > 0 and at least one holder, the share of the
\* reference group among the holders of k differs from the frozen r[k] by at
\* most 1 / J[m][k], provided round(r[k] * J[m][k]) employees of the
\* reference group and J[m][k] - round(r[k] * J[m][k]) of the other groups
\* were unassigned and not furloughed when the level was reached and the
\* ratio is the only condition of the run.
C12_RatioStability ==
    (/\ RatioLevelAssigned
     /\ this_job_count > 0
     /\ Holders(month, job) # {}
     /\ RatioFeasible
     /\ condition_list = {"ratio"})
    => ShareWithinOneJob

\* a later month of the period with holders of both sides and a frozen
\* ratio that is no multiple of 1 / J
C12_Witness ==
    /\ RatioLevelAssigned /\ RatioFeasible /\ condition_list = {"ratio"}
    /\ this_job_count > 0
    /\ month > 0
    /\ GroupHolders(month, job, 1) # {}
    /\ OtherHolders # {}
    /\ (ratio_cond_dict[job][1] * this_job_count) % 100 # 0

\* ------------------------------------------- the pre-existing rights
\* the rows of the month that are unassigned, not furloughed and sg = 1
SgCandidates ==
    {i \in 1..Len(long_assign_column[month]) :
        /\ long_assign_column[month][i] = 0
        /\ sg_ident[month][i] = 1
        /\ fur_data[month][i] = 0}

\* the slots of the right: min(rights[k], J[m][k])
sg_jobs_avail == Min(sg_dict(cf.sg_rights, job), this_job_count)

\* the pre-ex step of a pre-ex month and level finds the level without
\* holders and gives it to the most senior sg candidates, as many as the
\* capped right has slots; no other row changes
PrexStep ==
    (pc = "prex" /\ prex_applies) =>
        /\ Holders(month, job) = {}
        /\ Holders(month, job)' \subseteq SgCandidates
        /\ IsPrefix(Holders(month, job)', SgCandidates)
        /\ Cardinality(Holders(month, job)')
               = Min(sg_jobs_avail, Cardinality(SgCandidates))
        /\ \A i \in 1..Len(long_assign_column[month]) :
               i \notin Holders(month, job)'
               => long_assign_column'[month][i] = long_assign_column[month][i]

\* C13: pre-existing rights.  In a pre-ex month, for a pre-ex level k, the
\* first min(rights[k], J[m][k]) slots of level k go to the most senior
\* unassigned, non-furloughed sg = 1 employees before anyone else holds the
\* level, whatever their list position; a rights count larger than J[m][k]
\* is capped to J[m][k], and the level never has more holders than jobs.
C13_PrexRights ==
    /\ [][PrexStep]_vars
    /\ [](\A m \in Months : MonthDone(m) =>
             \A k \in 1..K :
                 Cardinality(Holders(m, k)) <= job_counts_each_month[m][k])

\* the pre-ex step has acted with a right larger than the job count: an sg
\* employee holds the level, another sg candidate is left without it, and a
\* senior employee without sg who is not furloughed is still unassigned
C13_Witness ==
    /\ pc = "ratio" /\ prex_applies
    /\ sg_dict(cf.sg_rights, job) > this_job_count
    /\ SgCandidates # {}
    /\ \E i \in Holders(month, job) :
       \E n \in 1..Len(long_assign_column[month]) :
           /\ n < i
           /\ sg_ident[month][n] = 0
           /\ fur_data[month][n] = 0
           /\ long_assign_column[month][n] = 0

\* ------------------------------------- a group outside the capped ratio
\* the rows of the month of employees outside the two sides of the capped
\* ratio whose orig job is the level of the loop
ExcludedHolders ==
    {i \in 1..Len(orig[month]) :
        eg_data[month][i] \notin {1, 2} /\ orig[month][i] = job}

\* C14: capped ratio, excluded groups.  When the capped-ratio step of a
\* capped-ratio month and level k has run, every employee outside the two
\* sides A and B who held k in the previous month (orig = k) holds k, and
\* the employees of A and B hold no more than the jobs of k that are left.
C14_ExcludedFirst ==
    (pc = "nbnf" /\ count_applies) =>
        /\ \A i \in ExcludedHolders : long_assign_column[month][i] = job
        /\ Cardinality(GroupHolders(month, job, 1))
               + Cardinality(GroupHolders(month, job, 2))
               <= this_job_count - Cardinality(ExcludedHolders)

\* ------------------------------------------ round trip of initial jobs
\* no job changes, no conditions, the engine starts with month 0, every
\* employee starts with a job of the initial job counts (so nobody starts
\* furloughed) and every job has a holder
RoundTripInput ==
    /\ cf.j_changes = <<>>
    /\ condition_list = {}
    /\ ~fur_return
    /\ start_month = 0
    /\ \A e \in Emps : orig[0][e] \in 1..K
    /\ total_monthly_job_count(0) = Cardinality(Emps)

\* the round trip as it is written: every employee has the initial job in
\* every month, also after more senior employees have retired
C15_AsStated ==
    RoundTripInput =>
        \A m \in Months : \A e \in Emps :
            (MonthDone(m) /\ Active(m, e))
            => assigned_job(m, e) = orig[0][e]

\* C15: round trip of initial jobs.  With no job changes, no conditions, no
\* furloughs, no vacant jobs and start_month = 0, every employee is assigned
\* the initial (stovepipe) job in every month in which nobody has retired
\* yet; in the months after a retirement every remaining employee is
\* assigned the initial job or a better one.
C15_RoundTrip ==
    RoundTripInput =>
        \A m \in Months : \A e \in Emps :
            (MonthDone(m) /\ Active(m, e))
            => /\ assigned_job(m, e) <= orig[0][e]
               /\ count_per_month(m) = count_per_month(0)
                      => assigned_job(m, e) = orig[0][e]

\* a later month with everybody present in which a senior employee has the
\* initial job of a worse level than a junior employee's initial job
C15_Witness ==
    /\ RoundTripInput
    /\ \E m \in Months \ {0} : \E e, x \in Emps :
           /\ MonthDone(m)
           /\ count_per_month(m) = count_per_month(0)
           /\ e < x
           /\ orig[0][x] < orig[0][e]
           /\ assigned_job(m, e) = orig[0][e]
           /\ assigned_job(m, x) = orig[0][x]

\* --------------------------------------- no furlough when jobs suffice
\* the job table has a job for every employee of every month
JobsSuffice ==
    \A m \in Months : total_monthly_job_count(m) >= count_per_month(m)

\* C16: no furlough when jobs suffice.  When nobody starts furloughed, the
\* run has no conditions and T[m] >= active[m] in every month, no row of any
\* month has fur = 1 and every row of a processed month holds a real level
\* 1..K (level 1 when there is a single level).
C16_NoFurlough ==
    (JobsSuffice /\ condition_list = {}) =>
        \A m \in Months :
            /\ \A i \in 1..count_per_month(m) : fur_data[m][i] = 0
            /\ MonthDone(m)
                   => \A i \in 1..count_per_month(m) :
                          long_assign_column[m][i] \in 1..K

\* a processed month of a reduction that leaves exactly one job for every
\* employee, with holders of two levels
C16_Witness ==
    /\ JobsSuffice /\ condition_list = {}
    /\ \E m \in Months :
           /\ MonthDone(m)
           /\ m \in job_reduction_months
           /\ total_monthly_job_count(m) = count_per_month(m)
           /\ total_monthly_job_count(m) < total_monthly_job_count(0)
           /\ Holders(m, 1) # {}
           /\ K > 1 /\ Holders(m, K) # {}

\* ------------------------------------------------------ carry forward
\* the end of a month passes to every employee who is present in the next
\* month the value of the assignment column of the month (the level, or 0
\* when the employee was left unassigned) as orig job, and the fur code the
\* employee has at the end of the month; the next month's slice has a row
\* for each of its employees
CarryForward ==
    (pc = "align" /\ month >= start_month /\ month + 1 \in Months) =>
        /\ Len(orig'[month + 1]) = count_per_month(month + 1)
        /\ Len(fur_data'[month + 1]) = count_per_month(month + 1)
        /\ \A e \in Emps :
               Active(month + 1, e) =>
                   /\ orig'[month + 1][RowOf(month + 1, e)]
                          = long_assign_column[month][RowOf(month, e)]
                   /\ fur_data'[month + 1][RowOf(month + 1, e)]
                          = fur_data'[month][RowOf(month, e)]

\* C17: carry forward (Step F).  For every employee active in months m and
\* m + 1 (m >= start_month), the orig job with which the processing of
\* month m + 1 starts equals the level the employee was assigned in month m,
\* and the fur flag with which it starts equals the employee's fur flag at
\* the end of month m; the alignment never drops or shifts an employee who
\* is present in month m + 1.
C17_CarryForward == [][CarryForward]_vars

\* the processing of a month starts after an employee who is not the most
\* junior has retired: a junior employee's row has moved up, and it has the
\* level of the month before, which is not the level of the employee who
\* had that row
C17_Witness ==
    /\ pc = "furlough" /\ month > start_month
    /\ \E e \in Emps :
           /\ Active(month, e)
           /\ RowOf(month, e) < RowOf(month - 1, e)
           /\ orig[month][RowOf(month, e)]
                  = long_assign_column[month - 1][RowOf(month - 1, e)]
           /\ orig[month][RowOf(month, e)]
                  # long_assign_column[month - 1][RowOf(month, e)]
           /\ orig[month][RowOf(month, e)] \in 1..K

\* ---------------------------------------------- implementation boundary
\* C18: implementation boundary.  When the engine reaches its first month,
\* start_month, every row of a month m < start_month has the employee's
\* pre-integration job as assigned job, and the rows of month start_month
\* are still unassigned: they are assigned by the steps of the month, not
\* copied from the pre-integration jobs.
C18_Boundary ==
    (pc = "furlough" /\ month = start_month) =>
        /\ \A m \in 0..(start_month - 1) : long_assign_column[m] = orig[m]
        /\ \A i \in 1..count_per_month(start_month) :
               long_assign_column[start_month][i] = 0

\* -------------------------------------------------------- determinism
\* the call of the random recall has one outcome: every outcome the call
\* can produce from the same columns, schedules and job totals is the
\* outcome of this run
RandomRecallDetermined ==
    (pc = "begin" /\ pc' = "called") =>
        \A r \in mark_for_recall_random(orig[month'], K, fur_data[month'],
                                         month', cf.recalls, job_totals) :
            /\ orig'[month'] = r.orig
            /\ fur_data'[month'] = r.fur

\* C19: determinism.  Two runs on identical inputs produce identical
\* outputs, also with the random recall method: the employees it recalls are
\* determined by the inputs of the call (the caller's seed among them), not
\* by a generator state outside of the call.
C19_Determinism == [][RandomRecallDetermined]_vars

\* ------------------------------------------------------ job-table ramp
\* total_delta * i / n truncated toward zero
RampTarget(total_delta, i, n) ==
    IF total_delta >= 0
    THEN (total_delta * i) \div n
    ELSE 0 - ((0 - total_delta) * i) \div n

\* what a single schedule adds to the count of its level in month m
RampAdditive(change, m) ==
    IF m < change.start THEN 0
    ELSE IF m < change.end
    THEN RampTarget(change.delta, m - change.start + 1,
                    change.end - change.start)
    ELSE change.delta

\* the table made from a single schedule: the ramp on the level of the
\* schedule, the initial counts on the other levels
SingleScheduleTable ==
    (pc = "table" /\ Len(cf.j_changes) = 1) =>
        LET change == cf.j_changes[1]
        IN  \A m \in Months : \A k \in 1..K :
                job_counts_each_month'[m][k] =
                    IF k = change.job
                    THEN job_counts_each_month[m][k] + RampAdditive(change, m)
                    ELSE job_counts_each_month[m][k]

\* C20: job-table ramp.  For a single schedule (level k, [start, end),
\* total_delta) applied by job_gain_loss_table, J[m][k] is the initial count
\* for m < start, the initial count plus total_delta * (m - start + 1) /
\* (end - start) truncated toward zero for start <= m < end, and the initial
\* count plus total_delta for every m >= end; the other levels keep their
\* initial counts, and T[m] is the sum of row m.
C20_JobTableRamp ==
    /\ [][SingleScheduleTable]_vars
    /\ [](\A m \in Months :
             job_totals[m] = Sum([k \in 1..K |-> job_counts_each_month[m][k]]))

\* the table of a reduction by one job over two months that is followed by
\* a month: the first month of the ramp keeps the count (-1/2 is truncated
\* to 0), the second month and the month after the ramp have one job less
C20_Witness ==
    /\ pc = "begin"
    /\ Len(cf.j_changes) = 1
    /\ LET change == cf.j_changes[1]
           k == change.job
       IN  /\ change.delta = -1
           /\ change.start = 0 /\ change.end = 2
           /\ 2 \in Months
           /\ job_counts_each_month[1][k] = job_counts_each_month[0][k] - 1
           /\ job_counts_each_month[2][k] = job_counts_each_month[1][k]
           /\ \E x \in 1..K : x # k /\ job_counts_each_month[0][x] > 0

\* ------------------------------------------------- several schedules
\* the sum of what the schedules of a list add to level k in month m, each
\* taken alone
RECURSIVE SumOfAdditives(_, _, _)
SumOfAdditives(changes, m, k) ==
    IF changes = <<>> THEN 0
    ELSE (IF Head(changes).job = k THEN RampAdditive(Head(changes), m) ELSE 0)
         + SumOfAdditives(Tail(changes), m, k)

Reversed(seq) == [i \in 1..Len(seq) |-> seq[Len(seq) + 1 - i]]

SchedulesAccumulate ==
    pc = "table" =>
        /\ \A m \in Months : \A k \in 1..K :
               job_counts_each_month'[m][k] =
                   job_counts_each_month[m][k]
                       + SumOfAdditives(cf.j_changes, m, k)
        /\ job_counts_each_month' =
               apply_job_changes(job_counts_each_month,
                                 Reversed(cf.j_changes))

\* C21: several job change schedules accumulate independently.  The table
\* made from a list of schedules is, for every month and level, the initial
\* count plus the sum of the additives each schedule contributes alone, and
\* it is the same for the list in the other order, overlapping schedules on
\* one level included.
C21_Accumulate == [][SchedulesAccumulate]_vars

\* the table of a reduction and a later gain on one level whose months
\* overlap: the count falls and rises again
C21_Witness ==
    /\ pc = "begin"
    /\ Len(cf.j_changes) = 2
    /\ LET a == cf.j_changes[1]
           b == cf.j_changes[2]
       IN  /\ a.job = b.job
           /\ a # b
           /\ a.start < b.start /\ b.start < a.end
           /\ a.delta < 0 /\ b.delta > 0
           /\ job_counts_each_month[a.start][a.job]
                  > job_counts_each_month[b.start][a.job]
           /\ job_counts_each_month[b.end - 1][a.job]
                  > job_counts_each_month[b.start][a.job]
           /\ job_counts_each_month[b.start][a.job] >= 0

\* C22: a job table with a negative count is never produced.  Whenever an
\* expanded count J[m][k] would be negative, also when only the sum of
\* several schedules makes it negative, building the table fails before the
\* monthly loop begins.
C22_NoNegativeTable ==
    pc = "begin" =>
        \A m \in Months : \A k \in 1..K : job_counts_each_month[m][k] >= 0

\* C23: over-allocation is fatal.  The engine does not finish and return
\* its output arrays when in some month more employees were assigned to a
\* level than the job table has jobs of that level.
C23_OverAllocationFatal ==
    pc = "done" =>
        ~ \E m \in Months : \E k \in 1..K :
              /\ m >= start_month
              /\ Cardinality(Holders(m, k)) > job_counts_each_month[m][k]

\* ------------------------------------------------------- distribution
\* C24: distribute(total, weights), for an integer total >= 0 and positive
\* weights, returns one non-negative integer for each weight, and the
\* integers returned add up to total.
C24_Distribute ==
    (call.fn = "distribute" /\ call.returned) =>
        /\ Len(call.result) = Len(call.weights)
        /\ \A i \in 1..Len(call.result) : call.result[i] >= 0
        /\ Sum(call.result) = call.available

\* a distribution over three groups in which a share was rounded up and a
\* share was rounded down
C24_Witness ==
    /\ call.fn = "distribute" /\ call.returned
    /\ Len(call.weights) = 3
    /\ call.available > 0
    /\ \E i, j \in 1..3 :
           /\ call.result[i] * Sum(call.weights)
                  > call.available * call.weights[i]
           /\ call.result[j] * Sum(call.weights)
                  < call.available * call.weights[j]

\* the weighted target of each group: the bins of available by weights
weighted_target == distribute(call.available, call.weights)

\* C25: distribute_vacancies_by_weights(available, counts, weights) returns
\* only non-negative additives that add up to max(0, available -
\* sum(counts)): zeros when there is no vacancy, and otherwise exactly the
\* vacancies, 0 for a group at or over its weighted target, the vacancies
\* going to the groups below target only.
C25_Vacancies ==
    (call.fn = "distribute_vacancies_by_weights" /\ call.returned) =>
        /\ Len(call.result) = Len(call.eg_counts)
        /\ \A i \in 1..Len(call.result) : call.result[i] >= 0
        /\ Sum(call.result) =
               Max(0, call.available - Sum(call.eg_counts))
        /\ \A i \in 1..Len(call.result) :
               call.eg_counts[i] >= weighted_target[i] => call.result[i] = 0

\* ------------------------------------------------------------ skeleton
\* C26: retirement monotonicity and slice bounds.  active[m+1] <=
\* active[m] for every month, lower[0] = 0, lower[m] = upper[m-1],
\* upper[m] - lower[m] = active[m], and upper of the last month is the
\* number of long-form rows: the slices of the months are contiguous
\* segments that partition the long-form arrays.
C26_SliceBounds ==
    (call.fn = "skeleton" /\ call.stage = "sliced") =>
        LET active == call.month_count
            n == Len(active)
        IN  /\ \A i \in 1..(n - 1) : active[i + 1] <= active[i]
            /\ Len(call.lower) = n /\ Len(call.upper) = n
            /\ call.lower[1] = 0
            /\ \A i \in 2..n : call.lower[i] = call.upper[i - 1]
            /\ \A i \in 1..n : call.upper[i] - call.lower[i] = active[i]
            /\ call.upper[n] = Len(call.mnum)

\* the rows of month m in the skeleton
MonthRows(m) == {r \in 1..Len(call.mnum) : call.mnum[r] = m}

\* the employees of month m in the skeleton
MonthEmps(m) == {call.idx[r] : r \in MonthRows(m)}

\* C27: skeleton contents.  The long-form rows of month m are exactly the
\* employees with career_months >= m, each exactly once, in list order; an
\* employee with career_months = c is in the months 0..c and in no later
\* month, and the employees of a month are among those of the month before.
C27_Skeleton ==
    (call.fn = "skeleton" /\ call.stage \in {"skeleton", "sliced"}) =>
        /\ Len(call.idx) = Len(call.mnum)
        /\ \A r \in 1..(Len(call.mnum) - 1) :
               \/ call.mnum[r + 1] = call.mnum[r]
                     /\ call.idx[r + 1] > call.idx[r]
               \/ call.mnum[r + 1] = call.mnum[r] + 1
        /\ \A m \in Months :
               /\ MonthEmps(m) = {e \in Emps : career[e] >= m}
               /\ Cardinality(MonthRows(m)) = Cardinality(MonthEmps(m))
               /\ m > 0 => MonthEmps(m) \subseteq MonthEmps(m - 1)
        /\ \A e \in Emps :
               {call.mnum[r] : r \in {x \in 1..Len(call.idx) : call.idx[x] = e}}
                   = 0..career[e]
        /\ \A r \in 1..Len(call.mnum) : call.mnum[r] \in Months

\* the skeleton of a list in which an employee who is not the last of the
\* list retires before the others
C27_Witness ==
    /\ call.fn = "skeleton" /\ call.stage = "skeleton"
    /\ \E e \in Emps :
           /\ e < NumEmp
           /\ career[e] > 0
           /\ career[e] < num_of_months - 1
           /\ e \in MonthEmps(career[e])
           /\ e \notin MonthEmps(career[e] + 1)
           /\ e + 1 \in MonthEmps(career[e] + 1)

\* ------------------------------------------------------- initial jobs
\* the non-furloughed members of group g in the call, in list order
StovepipeMembers(g) ==
    {i \in 1..Len(call.eg_array) :
        call.eg_array[i] = g /\ call.fur_array[i] = 0}

\* the number of jobs of group g on the levels before level k
JobsBefore(g, k) == Sum(SubSeq(call.jobs_arr_arr[g], 1, k - 1))

LongRow(m, i) == Sum(SubSeq(month_count_array, 1, m)) + i

\* the rows of month m with a job
ActiveRows(m) == {i \in 1..Len(long_assign_column[m]) :
                     long_assign_column[m][i] < K + 1}

\* C29: seniority number.  create_snum_and_spcnt_arrays numbers, within
\* each month, the rows whose assigned level is below FUR_LEVEL 1..n_active
\* in list order, leaves every furloughed row without a seniority number,
\* and so gives snum <= lnum on every numbered row.
C29_Snum ==
    call.fn = "create_snum_and_spcnt_arrays" =>
        \A m \in Months :
            /\ {call.snum[LongRow(m, i)] : i \in ActiveRows(m)}
                   = 1..Cardinality(ActiveRows(m))
            /\ \A i, j \in ActiveRows(m) :
                   i < j => call.snum[LongRow(m, i)] < call.snum[LongRow(m, j)]
            /\ \A i \in 1..Len(long_assign_column[m]) :
                   IF i \in ActiveRows(m)
                   THEN call.snum[LongRow(m, i)] <= call.lnum[LongRow(m, i)]
                   ELSE call.snum[LongRow(m, i)] = nan

\* the numbers of a result in which a furloughed row of a month stands
\* before a row with a job
C29_Witness ==
    /\ call.fn = "create_snum_and_spcnt_arrays"
    /\ \E m \in Months : \E i, j \in 1..Len(long_assign_column[m]) :
           /\ i < j
           /\ i \notin ActiveRows(m)
           /\ j \in ActiveRows(m)
           /\ call.snum[LongRow(m, j)] < call.lnum[LongRow(m, j)]
           /\ call.snum[LongRow(m, j)] > 1

\* ---------------------------------------------------- work conservation
\* the rows of the month that hold a job of a level 1..K
WithJob == {i \in 1..Len(long_assign_column[month]) :
               long_assign_column[month][i] \in 1..K}

\* the rows of the month that are not furloughed after steps B and C
NotFurloughed == {i \in 1..Len(fur_data[month]) : fur_data[month][i] = 0}

\* C30: work conservation.  At the end of the level loop of every processed
\* month the number of employees holding a real level is the smaller of
\* T[m] and the number of employees not furloughed after steps B and C; no
\* employee who is not furloughed is left unassigned while a level has an
\* unfilled job.
C30_WorkConservation ==
    pc = "align" =>
        /\ Cardinality(WithJob) =
               Min(job_totals[month], Cardinality(NotFurloughed))
        /\ (NotFurloughed \ WithJob # {}) =>
               \A k \in 1..K :
                   Count(long_assign_column[month], k)
                       >= job_counts_each_month[month][k]

\* the end of the level loop of a month with fewer jobs than employees who
\* are not furloughed, and of a month with more
C30_Witness ==
    /\ pc = "align"
    /\ month > 0
    /\ \/ /\ job_totals[month] < Cardinality(NotFurloughed)
          /\ job_totals[month] > 0
       \/ /\ job_totals[month] > Cardinality(NotFurloughed)
          /\ Cardinality(NotFurloughed) < Len(fur_data[month])

\* ------------------------------------------------- furlough transitions
\* employee e is furloughed at the end of the processed month m
FurloughedAtEnd(m, e) ==
    MonthDone(m) /\ Active(m, e) /\ fur_data[m][RowOf(m, e)] = 1

\* C31: furlough is absorbing without recall.  When fur_return is false, an
\* employee who has fur = 1 at the end of a processed month has fur = 1 and
\* no real job in every later processed month in which the employee is
\* active, also when retirements or job increases leave jobs vacant.
C31_FurloughAbsorbing ==
    ~fur_return =>
        \A m \in Months : \A e \in Emps :
            FurloughedAtEnd(m, e) =>
                \A n \in (m + 1)..(month - 1) :
                    Active(n, e) =>
                        /\ fur_data[n][RowOf(n, e)] = 1
                        /\ long_assign_column[n][RowOf(n, e)] \notin 1..K

\* an employee furloughed at the end of a month stays furloughed through a
\* later month in which a level has fewer holders than jobs
C31_Witness ==
    /\ ~fur_return
    /\ \E m \in Months : \E e \in Emps :
           /\ FurloughedAtEnd(m, e)
           /\ MonthDone(m + 1) /\ Active(m + 1, e)
           /\ \E k \in 1..K :
                  Cardinality(Holders(m + 1, k))
                      < job_counts_each_month[m + 1][k]

\* C32: furlough only by reduction.  With no conditional quota in effect,
\* for every month m > start_month, an employee who held a real job at the
\* end of month m - 1 and is active in month m ends month m furloughed only
\* if m is in job_reduction_months.
C32_FurloughOnlyByReduction ==
    \A m \in (start_month + 1)..(month - 1) :
        ~CondInEffect(m) =>
            \A e \in Emps :
                (HeldBefore(m, e) /\ fur_data[m][RowOf(m, e)] = 1)
                    => m \in job_reduction_months

\* an employee with a job in a month is furloughed in the next month, a
\* month of a job reduction, and another employee keeps a job in a later
\* month without a reduction
C32_Witness ==
    \E m \in (start_month + 1)..(month - 1) : \E e \in Emps :
        /\ ~CondInEffect(m)
        /\ HeldBefore(m, e)
        /\ fur_data[m][RowOf(m, e)] = 1
        /\ m \in job_reduction_months
        /\ \E n \in (m + 1)..(month - 1) : \E x \in Emps :
               /\ n \notin job_reduction_months
               /\ HeldBefore(n, x)
               /\ fur_data[n][RowOf(n, x)] = 0

\* ---------------------------------------------------------- ratio freeze
\* the ratio dictionary is not written again once it holds the ratios
RatioKept ==
    ratio_cond_dict # <<>> => ratio_cond_dict' = ratio_cond_dict

\* C33: ratio freeze.  The ratio of every ratio level is computed once, in
\* the first month of the ratio period that the engine processes and before
\* a level of that month is assigned, and every application of the ratio
\* condition in that or a later month finds the value available and
\* unchanged, also when start_month is later than the first month of the
\* ratio period or when level 1 is not a ratio job.
C33_RatioFreeze ==
    /\ []((pc = "ratio" /\ ratio_applies) => job \in DOMAIN ratio_dict_now)
    /\ [][RatioKept]_vars

\* the capped-ratio step of the current month and level, seen from the state
\* before it (pc = "count"): the rows of groups A = {1} and B = {2}, the jobs
\* of the level already taken, the holders of the level and the ones of them
\* who fit into the jobs not already taken
CapBefore == long_assign_column[month]

CapAffected == {i \in DOMAIN CapBefore : eg_data[month][i] \in {1, 2}}

CapTaken == Count(CapBefore, job)

CapHolders == {i \in CapAffected : CapBefore[i] = 0 /\ orig[month][i] = job /\ fur_data[month][i] = 0}

CapKept == First(CapHolders, Max(0, this_job_count - CapTaken))

\* the level-k jobs of group g once the holders have their job back
CapCount(g) == Cardinality({i \in DOMAIN CapBefore : eg_data[month][i] = g /\ (CapBefore[i] = job \/ i \in First(CapHolders, this_job_count - CapTaken))})

CapLimit == cf.quota_dict[job].limit * cf.quota_dict[job].pcnt

CapVacancies == Min(this_job_count, Round(CapLimit, 100)) - CapTaken - CapCount(1) - CapCount(2)

CapOpenJobs == this_job_count - CapTaken - CapCount(1) - CapCount(2)

CapShortfall(g) == Max(0, distribute100(CapLimit, cf.quota_dict[job].weights)[g] - CapCount(g))

\* the rows the step gives the level to, other than the holders it keeps
CapAdded == {i \in DOMAIN CapBefore : CapBefore[i] # job /\ long_assign_column'[month][i] = job /\ i \notin First(CapHolders, this_job_count - CapTaken)}

CapStep == pc = "count" /\ count_applies

\* C34 as stated: in the capped-ratio step of level k the holders of k in A
\* and B get k back, up to the jobs of the level not already taken, nobody
\* loses a job, and when the holders fill the capped pool (vacancies <= 0)
\* nobody else is added to the level
C34_AsStated ==
    [][CapStep =>
          /\ \A i \in CapKept : long_assign_column'[month][i] = job
          /\ \A i \in DOMAIN CapBefore :
                 CapBefore[i] # 0 => long_assign_column'[month][i] = CapBefore[i]
          /\ CapVacancies <= 0 => CapAdded = {}]_vars

\* C34: in the capped-ratio step of level k the holders of k in A and B get k
\* back, up to the jobs of the level not already taken, and nobody loses a
\* job; when the holders fill the capped pool (vacancies <= 0) the only
\* employees added to the level are unassigned non-furloughed members of a
\* group that holds fewer jobs of the level than its share
\* distribute(limit, weights) of the cap
C34_NoDisplacement ==
    [][CapStep =>
          /\ \A i \in CapKept : long_assign_column'[month][i] = job
          /\ \A i \in DOMAIN CapBefore :
                 CapBefore[i] # 0 => long_assign_column'[month][i] = CapBefore[i]
          /\ CapVacancies <= 0 =>
                 \A i \in CapAdded :
                     /\ CapBefore[i] = 0
                     /\ fur_data[month][i] = 0
                     /\ eg_data[month][i] \in {1, 2}
                     /\ CapShortfall(eg_data[month][i]) > 0]_vars

\* the capped ratio alone has acted on a level whose holders fill the capped
\* pool: a holder has the job back and a non-holder was added to the level
C34_Witness ==
    /\ pc = "nbnf"
    /\ count_applies
    /\ condition_list = {"count"}
    /\ Cardinality({i \in DOMAIN orig[month] :
                       /\ eg_data[month][i] \in {1, 2}
                       /\ orig[month][i] = job
                       /\ long_assign_column[month][i] = job})
           >= Max(1, Min(this_job_count, Round(CapLimit, 100)))
    /\ \E i \in DOMAIN orig[month] :
           orig[month][i] # job /\ long_assign_column[month][i] = job

\* C35: in the shortfall branch of the capped-ratio step (the weights hand
\* out no vacancy) the employees added to the level are not more than
\* open_jobs, and each group gets at most its own shortfall against
\* distribute(limit, weights)
C35_ShortfallBranch ==
    [][(CapStep /\ Sum(distribute_vacancies_by_weights(Min(this_job_count, Round(CapLimit, 100)) - CapTaken, <<CapCount(1), CapCount(2)>>, cf.quota_dict[job].weights)) = 0) =>
          /\ Cardinality(CapAdded) <= Max(0, CapOpenJobs)
          /\ \A g \in {1, 2} :
                 Cardinality({i \in CapAdded : eg_data[month][i] = g})
                     <= CapShortfall(g)]_vars

\* the rows of month m whose assignment a step changes
Written(m) == {i \in DOMAIN long_assign_column[m] : long_assign_column'[m][i] # long_assign_column[m][i]}

\* C36: an assignment, once set to a level, is never changed by a later
\* sub-step or by a later level: every step of the monthly loop writes only
\* rows of its own month that are still 0 and writes the level it is
\* processing, and the levels of a month are processed in the order 1..K
C36_WriteOnce ==
    [][/\ \A m \in Months : \A i \in Written(m) :
              /\ long_assign_column[m][i] = 0
              /\ pc # "final" =>
                     (m = month /\ job \in 1..K
                      /\ long_assign_column'[m][i] = job)
       /\ job' # job =>
              \/ pc = "jcount" /\ job \in 1..K /\ job' = job + 1
              \/ job' = 1 /\ job = K + 1]_vars

\* a later level of a month is being assigned while an earlier level of the
\* month is held, after a conditional step and a fill have both written
C36_Witness ==
    /\ pc = "jcount"
    /\ job = 2
    /\ condition_list # {}
    /\ \E i, i2, i3 \in DOMAIN long_assign_column[month] :
           /\ long_assign_column[month][i] = 1
           /\ orig[month][i] # 1
           /\ long_assign_column[month][i2] = 1
           /\ orig[month][i2] = 1
           /\ long_assign_column[month][i3] = 2

\* the orig jobs of the rows of month m that are not furloughed, in list order
OrigOfWorking(og, fur, m) ==
    LET Working(i) == fur[m][i] = 0
    IN  [n \in 1..Len(SelectSeq([i \in 1..Len(og[m]) |-> i], Working)) |->
            og[m][SelectSeq([i \in 1..Len(og[m]) |-> i], Working)[n]]]

\* the job list of month m, as long as the list of employees
StoveJobList(m) == make_stovepipe_jobs_from_jobs_arr(job_counts_each_month[m], count_per_month(0))

\* the stovepipe assignment of month m
StoveAssign(m) == assign_jobs_full_flush_skip_furs([x \in Months |-> count_per_month(x)], StoveJobList(m), fur_data, K)[m]

\* the engine's assignment of month m with the unassigned at the furlough level
EngineAssign(m) == [i \in 1..Len(long_assign_column[m]) |-> IF long_assign_column[m][i] = 0 THEN K + 1 ELSE long_assign_column[m][i]]

\* C37: with constant job counts, no conditions and no recall, a month whose
\* working (not furloughed) employees have non-decreasing orig jobs in list
\* order gets from the engine the assignment of the full-flush stovepipe that
\* skips the furloughed, and the orig jobs handed to the next month are
\* non-decreasing again over its working employees
C37_NbnfIsStovepipe ==
    [][(pc = "align" /\ monotonic(OrigOfWorking(orig, fur_data, month))) =>
          /\ EngineAssign(month) = StoveAssign(month)
          /\ month + 1 < num_of_months =>
                 monotonic(OrigOfWorking(orig', fur_data', month + 1))]_vars

\* a month after the first is complete on a list with non-decreasing orig
\* jobs, with a furloughed employee skipped and both levels assigned
C37_Witness ==
    /\ pc = "align"
    /\ month >= 1
    /\ K = 2
    /\ monotonic(OrigOfWorking(orig, fur_data, month))
    /\ \E i, i2, i3 \in DOMAIN long_assign_column[month] :
           /\ i < i2
           /\ fur_data[month][i] = 1
           /\ long_assign_column[month][i2] = 1
           /\ long_assign_column[month][i3] = 2

\* the same equality without the condition on the orig jobs
C37_AnyList ==
    [][pc = "align" => EngineAssign(month) = StoveAssign(month)]_vars

\* the rights count of level k in the call of make_stovepipe_prex_shortform
RightsCount(k) ==
    IF \E r \in 1..Len(call.sg_rights) : call.sg_rights[r].job = k
    THEN call.sg_rights[CHOOSE r \in 1..Len(call.sg_rights) : call.sg_rights[r].job = k].count
    ELSE 0

\* C38: initial jobs with pre-existing rights.  No level of the group gets
\* more employees than the group has jobs on it, whatever the rights count
\* and the number of sg == 1 employees; furloughed employees get no job; the
\* sg == 1 employees of a level with rights are, in list order, the first to
\* get its reserved jobs
C38_PrexShortform ==
    (call.fn = "make_stovepipe_prex_shortform" /\ call.returned) =>
        /\ \A k \in 1..Len(call.job_list) :
               Count(call.result, k) <= call.job_list[k]
        /\ \A x \in 1..Len(call.result) :
               call.fur_codes[x] # 0 => call.result[x] = 0
        /\ \A k \in 1..Len(call.job_list) :
           \A x, y \in 1..Len(call.result) :
               (/\ x < y
                /\ call.sg_codes[x] = 1 /\ call.sg_codes[y] = 1
                /\ call.fur_codes[x] = 0
                /\ call.result[y] = k)
                   => call.result[x] \in 1..k

\* the same for the calls in which no rights count is above the job count
\* of its level
C38_RightsWithinJobs ==
    (\A k \in 1..Len(call.job_list) : RightsCount(k) <= call.job_list[k])
        => C38_PrexShortform

\* the rows (from 1) of the list that are in the zone [L, H) of the call
ZoneRows == {x \in 1..Len(call.new_order) : call.senior_num <= x - 1 /\ x - 1 < call.junior_num}

\* C39: squeeze_increment with H > L returns an order array that is
\* unchanged outside the zone [L, H), holds in the zone a permutation of the
\* zone's order numbers, and keeps the relative order of the members of
\* every employee group, for every positive or negative increment
C39_Squeeze ==
    (call.fn = "squeeze_increment" /\ call.returned) =>
        /\ Len(call.result) = Len(call.new_order)
        /\ \A x \in 1..Len(call.new_order) :
               x \notin ZoneRows => call.result[x] = call.new_order[x]
        /\ {call.result[x] : x \in ZoneRows} = {x - 1 : x \in ZoneRows}
        /\ \A x, y \in 1..Len(call.new_order) :
               (call.eg_arr[x] = call.eg_arr[y]
                /\ call.new_order[x] < call.new_order[y])
                   => call.result[x] < call.result[y]

\* the same for the calls whose zone does not end before the list
C39_ZoneOnList == call.junior_num >= 0 => C39_Squeeze
====
